---- MODULE Spec2Model ----
(***************************************************************************)
(* TensorExprKernel (torch/csrc/jit/tensorexpr/kernel.cpp): the fallback   *)
(* controller of the constructor and of run(), backend selection, the      *)
(* binding of graph inputs, outputs and constants to bufferArgs_, and the  *)
(* marshalling of call arguments and of the evaluation stack in            *)
(* runKernel(), the resolution of symbolic output shapes at run time, the  *)
(* restriding of outputs, and the loop passes of transformLoops().         *)
(***************************************************************************)
EXTENDS Integers, Sequences, FiniteSets, TLC

\* ------------------------------------------------------------------ bounds
\* longest list of graph inputs
MaxInputs == 3
\* largest number of symbolic shape inputs (symbolic_shape_inputs_.size())
MaxSym == 1
\* largest number of graph outputs
MaxOutputs == 2
\* longest list of constant-producing graph nodes
MaxNodes == 2
\* largest number of static intermediate buffers left after inlining
MaxInterm == 1
\* largest number of stack values below the kernel's inputs
MaxBelow == 1

VARIABLES
    envFallback,              \* getenv("PYTORCH_TENSOREXPR_FALLBACK")
    envDontUseLLVM,           \* getenv("PYTORCH_TENSOREXPR_DONT_USE_LLVM")
    TORCH_ENABLE_LLVM,        \* the build has LLVM
    fallback_allowed,         \* static bool fallback_allowed
    te_generate_block_code,   \* static bool te_generate_block_code
    te_must_use_llvm_on_cpu,  \* static bool te_must_use_llvm_on_cpu
    graph_,                   \* the subgraph handed to the constructor
    pre_alloc_,               \* constructor argument pre_alloc
    pc,                       \* "start", "constructed" or "ctorThrew"
    allow_fallback_,
    use_fallback_,
    compileResult,            \* "notCalled", "ok" or "threw"
    backendResult,            \* result of inferBackendTypeFromDevice in compile()
    nInputs_,
    bufferArgs_,
    constants_,
    bufOutputs_,              \* output buffers in the order compile() met them
    codegen_,
    stack,                    \* the evaluation stack of the last run()
    stackIn,                  \* the stack as it was handed to the last run()
    fallbackStack,            \* the stack the last run() handed to fallback()
    calls,                    \* what the last run() called, in order
    kernelThrew,              \* runKernel threw in the last run()
    runThrew,                 \* the last run() threw to its caller
    runArgs,                  \* the vector prepareRunArgs built in the last run()
    prevKernelFailed,         \* runKernel threw in a run() before the last one
    symGraph,                 \* a subgraph with symbolic shapes
    symPc,                    \* "start", "compiled" or "compileThrew"
    shapeSymbolToVar_,
    shapeSymbolInputPos_,
    inputBufDims,             \* dims of the buffer bound to the tensor input
    tensorOutputSymbolicSizes_,
    tensorOutputSizes_,
    tensorOutputStrides_,
    callers,                  \* the threads that call run() on the kernel
    call,                     \* per thread: the run() it is in, and its locals
    nCalls,                   \* calls of run() begun so far
    fn,                       \* the function of kernel.cpp applied last
    arg,                      \* what it was applied to
    res                       \* what it returned

config == <<envFallback, envDontUseLLVM, TORCH_ENABLE_LLVM,
            te_generate_block_code, te_must_use_llvm_on_cpu>>
kernel == <<pc, allow_fallback_, use_fallback_, compileResult, backendResult,
            nInputs_, bufferArgs_, constants_, bufOutputs_, codegen_>>
lastRun == <<stack, stackIn, fallbackStack, calls, kernelThrew, runThrew,
             runArgs, prevKernelFailed>>
symbolic == <<symGraph, symPc, shapeSymbolToVar_, shapeSymbolInputPos_,
              inputBufDims, tensorOutputSymbolicSizes_, tensorOutputSizes_,
              tensorOutputStrides_, callers, call, nCalls>>
applied == <<fn, arg, res>>
vars == <<config, fallback_allowed, graph_, pre_alloc_, kernel, lastRun,
          symbolic, applied>>

\* ------------------------------------------------------------ value domains
FallbackEnvValues == {"unset", "0", "1", "2"}
DontUseLLVMEnvValues == {"unset", "0", "1"}
DeviceTypes == {"kCUDA", "kCPU", "kXLA"}
\* TypeKind of a graph input that bindInput accepts
BindableKinds == {"TensorType", "FloatType", "BoolType", "IntType"}
\* a TypeKind bindInput rejects with unsupported_dtype
OtherKind == "ListType"
NodeKinds == {"TensorConstant", "ScalarConstant", "CustomClassConstant",
              "conv2dNoBias"}
\* the node outputs a subgraph may name as its outputs
OutputValues == {1, 2}
\* where compile() fails for a reason outside this model
ExtFailures == {"none", "lowering", "transformLoops", "CreateCodeGen"}

Min(S) == CHOOSE x \in S : \A y \in S : x <= y

Max(S) == CHOOSE x \in S : \A y \in S : x >= y

SeqsUpTo(S, lo, hi) == UNION {[1..n -> S] : n \in lo..hi}

\* --------------------------------------------------- process configuration
\* bool setFallbackAllowed(bool value)
setFallbackAllowed(value) ==
    /\ fallback_allowed' = value
    /\ UNCHANGED <<config, graph_, pre_alloc_, kernel, lastRun, symbolic,
                   applied>>

\* bool fallbackAllowed()
fallbackAllowed ==
    IF envFallback = "unset" THEN fallback_allowed
    ELSE IF envFallback = "0" THEN FALSE
    ELSE TRUE

\* bool fallbackEnforced()
fallbackEnforced ==
    IF te_generate_block_code THEN FALSE
    ELSE IF envFallback = "unset" THEN fallback_allowed
    ELSE IF envFallback = "2" THEN TRUE
    ELSE FALSE

\* bool dontUseLLVMFlag()
dontUseLLVMFlag ==
    IF envDontUseLLVM = "unset" THEN FALSE
    ELSE envDontUseLLVM = "1"

\* ------------------------------------------------------- backend selection
BackendOk(b) == [threw |-> FALSE, what |-> "", backendType |-> b]
BackendError(msg) == [threw |-> TRUE, what |-> msg,
                      backendType |-> "kUninitialized"]
NoBackendResult == [threw |-> FALSE, what |-> "notReached",
                    backendType |-> "kUninitialized"]

\* the value the #ifdef TORCH_ENABLE_LLVM block assigns on a CPU device
cpuBackendType ==
    IF TORCH_ENABLE_LLVM
    THEN (IF dontUseLLVMFlag THEN "kSimpleIREval" ELSE "kLLVMCodeGen")
    ELSE "kSimpleIREval"

\* mutant: the must-use-LLVM check is lost
inferBackendTypeFromDevice_NoMustCheck(device) ==
    IF device = "kCUDA" THEN BackendOk("kCudaCodeGen")
    ELSE IF device = "kCPU" /\ te_generate_block_code
    THEN BackendOk("kBlockCodeGen")
    ELSE IF device = "kCPU" THEN BackendOk(cpuBackendType)
    ELSE BackendError("Invalid device type")

\* mutant: the block-codegen flag is tested before the device type
inferBackendTypeFromDevice_BlockFirst(device) ==
    IF te_generate_block_code /\ device \in {"kCPU", "kCUDA"}
    THEN BackendOk("kBlockCodeGen")
    ELSE IF device = "kCUDA" THEN BackendOk("kCudaCodeGen")
    ELSE IF device = "kCPU"
    THEN (IF te_must_use_llvm_on_cpu /\ cpuBackendType = "kSimpleIREval"
          THEN BackendError("LLVM Backend not found")
          ELSE BackendOk(cpuBackendType))
    ELSE BackendError("Invalid device type")

\* TensorExprKernel::inferBackendTypeFromDevice
inferBackendTypeFromDevice(device) ==
    IF device = "kCUDA" THEN BackendOk("kCudaCodeGen")
    ELSE IF device = "kCPU" /\ te_generate_block_code
    THEN BackendOk("kBlockCodeGen")
    ELSE IF device = "kCPU"
    THEN (IF te_must_use_llvm_on_cpu /\ cpuBackendType = "kSimpleIREval"
          THEN BackendError("LLVM Backend not found")
          ELSE BackendOk(cpuBackendType))
    ELSE BackendError("Invalid device type")

\* TensorExprKernel::getCodeGenName
getCodeGenName(backendType) ==
    CASE backendType = "kCudaCodeGen" -> "cuda_codegen"
      [] backendType = "kLLVMCodeGen" -> "llvm_codegen"
      [] backendType = "kSimpleIREval" -> "simple_ir_eval"
      [] backendType = "kBlockCodeGen" -> "block_codegen"

\* ------------------------------------------------------------------ binding
\* CodeGen::BufferArg: a buffer (BufHandle) or a scalar variable (VarHandle).
\* src/idx name the graph input, the output value or the constants_ entry
\* the argument stands for.
BufArg(src, idx) == [isVar |-> FALSE, dtype |-> "buf", src |-> src, idx |-> idx]
VarArg(dtype, idx) == [isVar |-> TRUE, dtype |-> dtype, src |-> "input", idx |-> idx]

\* TensorExprKernel::bindInput: the argument appended to bufferArgs_.  The
\* three TensorType branches (symbolic, contiguous, strided) each append one
\* BufHandle for the input.
bindInput(kind, i) ==
    CASE kind = "TensorType" -> BufArg("input", i)
      [] kind = "FloatType" -> VarArg("kDouble", i)
      [] kind = "BoolType" -> VarArg("kBool", i)
      [] kind = "IntType" -> VarArg("kLong", i)

\* mutant: tensors are bound first, scalars after them
bindAllInputs_TensorsFirst(g) ==
    LET nIn == Len(g.inputs)
        symbolic_shape_inputs_start_pos == nIn - g.nSym
        idx == [i \in 1..symbolic_shape_inputs_start_pos |-> i]
        tens == SelectSeq(idx, LAMBDA i : g.inputs[i] = "TensorType")
        scal == SelectSeq(idx, LAMBDA i : g.inputs[i] # "TensorType")
        order == tens \o scal
    IN  IF \/ (g.nSym > 0 /\ ~(nIn > g.nSym))
           \/ \E i \in 1..nIn : g.inputs[i] \notin BindableKinds
           \/ \E i \in (symbolic_shape_inputs_start_pos + 1)..nIn :
                  g.inputs[i] # "IntType"
        THEN [threw |-> TRUE, bufferArgs |-> <<>>]
        ELSE [threw |-> FALSE,
              bufferArgs |->
                  [k \in 1..Len(order) |-> bindInput(g.inputs[order[k]], order[k])]
                  \o [k \in 1..g.nSym |->
                         VarArg("kLong", symbolic_shape_inputs_start_pos + k)]]

\* TensorExprKernel::bindAllInputs: bufferArgs_ after the call, and whether
\* it threw
bindAllInputs(g) ==
    LET nIn == Len(g.inputs)
        has_symbolic_shapes_ == g.nSym > 0
        symbolic_shape_inputs_start_pos == nIn - g.nSym
    IN  IF has_symbolic_shapes_ /\ ~(nIn > g.nSym)
        THEN \* TORCH_CHECK: symbolic dims not provided as inputs
             [threw |-> TRUE, bufferArgs |-> <<>>]
        ELSE IF \E i \in (symbolic_shape_inputs_start_pos + 1)..nIn :
                    g.inputs[i] # "IntType"
        THEN \* expected integer type input to graph for symbolic dims
             [threw |-> TRUE, bufferArgs |-> <<>>]
        ELSE LET bad == {i \in 1..symbolic_shape_inputs_start_pos :
                            g.inputs[i] \notin BindableKinds}
                 upto == IF bad = {} THEN symbolic_shape_inputs_start_pos
                         ELSE Min(bad) - 1
                 bound == [i \in 1..upto |-> bindInput(g.inputs[i], i)]
                 symbolic_shape_args ==
                     [k \in 1..g.nSym |->
                         VarArg("kLong", symbolic_shape_inputs_start_pos + k)]
             IN  IF bad # {}
                 THEN \* bindInput: unsupported_dtype
                      [threw |-> TRUE, bufferArgs |-> bound]
                 ELSE [threw |-> FALSE,
                       bufferArgs |-> bound \o symbolic_shape_args]

\* an entry of constants_
ConstantEntry(kind, idx) == [kind |-> kind, idx |-> idx]

\* TensorExprKernel::bindConstant and the optional-bias branch of
\* computeValue: the entries the node loop of compile() appends to
\* constants_.  Scalar constants are not bound.
nodeConstants(nodes) ==
    LET idx == SelectSeq([i \in 1..Len(nodes) |-> i],
                         LAMBDA i : nodes[i] # "ScalarConstant")
    IN  [k \in 1..Len(idx) |-> ConstantEntry(nodes[idx[k]], idx[k])]

\* TensorExprKernel::preAllocIntermediateBufs: an entry for every static
\* intermediate buffer
preAllocIntermediateBufs(interm) ==
    [k \in 1..interm |-> ConstantEntry("intermediate", k)]

\* the loop of compile() that moves the output operands to bufOutputs_: the
\* outputs it handles before it returns or throws.  An output is erased from
\* bufs_ once handled, so a second occurrence is not found.
boundOutputs(outputs) ==
    LET dup == {j \in 1..Len(outputs) :
                   \E i \in 1..(j - 1) : outputs[i] = outputs[j]}
        upto == IF dup = {} THEN Len(outputs) ELSE Min(dup) - 1
    IN  [threw |-> dup # {}, outputs |-> SubSeq(outputs, 1, upto)]

\* the BufHandle arguments compile() appends for output values / constants
outputArgs(outs) == [j \in 1..Len(outs) |-> BufArg("output", outs[j])]
constantArgs(cs) == [k \in 1..Len(cs) |-> BufArg(cs[k].kind, cs[k].idx)]

\* the members as the constructor finds them
NotCompiled ==
    [threw |-> FALSE, nInputs |-> 0, bufferArgs |-> <<>>, constants |-> <<>>,
     bufOutputs |-> <<>>, backendResult |-> NoBackendResult,
     codegen |-> "null"]

\* TensorExprKernel::compile: the members after the call, and whether it
\* threw.  extFail names a failure of a lowering, of transformLoops or of
\* CreateCodeGen.
compile(g, prealloc, extFail) ==
    LET b == bindAllInputs(g)
        nodeCs == nodeConstants(g.nodes)
        o == boundOutputs(g.outputs)
        be == inferBackendTypeFromDevice(g.device)
        allCs == nodeCs \o
                 (IF prealloc THEN preAllocIntermediateBufs(g.interm) ELSE <<>>)
        s0 == [NotCompiled EXCEPT !.threw = TRUE, !.nInputs = Len(g.inputs),
                                  !.bufferArgs = b.bufferArgs]
        s1 == [s0 EXCEPT !.constants = nodeCs]
        s2 == [s1 EXCEPT !.bufOutputs = o.outputs,
                         !.bufferArgs = b.bufferArgs \o outputArgs(o.outputs)]
        s3 == [s2 EXCEPT !.backendResult = be]
        s4 == [s3 EXCEPT !.constants = allCs,
                         !.bufferArgs = s2.bufferArgs \o constantArgs(allCs)]
    IN  IF b.threw THEN s0
        ELSE IF extFail = "lowering" THEN s1
        ELSE IF o.threw THEN s2
        ELSE IF be.threw \/ extFail = "transformLoops" THEN s3
        ELSE IF extFail = "CreateCodeGen" THEN s4
        ELSE [s4 EXCEPT !.threw = FALSE,
                        !.codegen = getCodeGenName(be.backendType)]

\* ------------------------------------------------------------- constructor
\* the member initializer of use_fallback_
use_fallback_default == FALSE

\* mutant: a compile error is swallowed although fallback is not allowed
ctorOutcome_AlwaysCatch(g, prealloc, extFail) ==
    LET allow == fallbackAllowed
        c == compile(g, prealloc, extFail)
    IN  IF allow /\ fallbackEnforced
        THEN [allow |-> allow, use |-> TRUE, compileResult |-> "notCalled",
              threw |-> FALSE, members |-> NotCompiled]
        ELSE [allow |-> allow, use |-> c.threw,
              compileResult |-> IF c.threw THEN "threw" ELSE "ok",
              threw |-> FALSE, members |-> c]

\* mutant: the catch block forgets to switch to fallback mode
ctorOutcome_CatchNoSwitch(g, prealloc, extFail) ==
    LET allow == fallbackAllowed
        c == compile(g, prealloc, extFail)
    IN  IF ~allow
        THEN [allow |-> allow, use |-> use_fallback_default,
              compileResult |-> IF c.threw THEN "threw" ELSE "ok",
              threw |-> c.threw, members |-> c]
        ELSE IF fallbackEnforced
        THEN [allow |-> allow, use |-> TRUE, compileResult |-> "notCalled",
              threw |-> FALSE, members |-> NotCompiled]
        ELSE [allow |-> allow, use |-> FALSE,
              compileResult |-> IF c.threw THEN "threw" ELSE "ok",
              threw |-> FALSE, members |-> c]

\* TensorExprKernel::TensorExprKernel: the flags it sets, whether compile()
\* ran, the members compile() left and whether the constructor threw
ctorOutcome(g, prealloc, extFail) ==
    LET allow == fallbackAllowed
        c == compile(g, prealloc, extFail)
    IN  IF ~allow
        THEN [allow |-> allow, use |-> use_fallback_default,
              compileResult |-> IF c.threw THEN "threw" ELSE "ok",
              threw |-> c.threw, members |-> c]
        ELSE IF fallbackEnforced
        THEN [allow |-> allow, use |-> TRUE, compileResult |-> "notCalled",
              threw |-> FALSE, members |-> NotCompiled]
        ELSE [allow |-> allow, use |-> c.threw,
              compileResult |-> IF c.threw THEN "threw" ELSE "ok",
              threw |-> FALSE, members |-> c]

\* the constructor, as a step of the kernel's life
Construct(extFail) ==
    /\ pc = "start"
    /\ LET r == ctorOutcome(graph_, pre_alloc_, extFail)
       IN  /\ pc' = IF r.threw THEN "ctorThrew" ELSE "constructed"
           /\ allow_fallback_' = r.allow
           /\ use_fallback_' = r.use
           /\ compileResult' = r.compileResult
           /\ backendResult' = r.members.backendResult
           /\ nInputs_' = r.members.nInputs
           /\ bufferArgs_' = r.members.bufferArgs
           /\ constants_' = r.members.constants
           /\ bufOutputs_' = r.members.bufOutputs
           /\ codegen_' = r.members.codegen
    /\ UNCHANGED <<config, fallback_allowed, graph_, pre_alloc_, lastRun,
                   symbolic, applied>>

\* --------------------------------------------------------------------- run
\* an IValue on the evaluation stack
IValue(tag, src, idx) == [tag |-> tag, src |-> src, idx |-> idx]

\* the IValue tag of a value of the given graph type
IValueTag(kind) ==
    CASE kind = "TensorType" -> "Tensor"
      [] kind = "FloatType" -> "Double"
      [] kind = "BoolType" -> "Bool"
      [] kind = "IntType" -> "Int"
      [] OTHER -> "GenericList"

\* the stack a caller hands to run(): `below` values of its own, then one
\* value per graph input, the last input on top
callerStack(g, below) ==
    [k \in 1..below |-> IValue("Tensor", "below", k)]
    \o [i \in 1..Len(g.inputs) |-> IValue(IValueTag(g.inputs[i]), "input", i)]

\* torch::jit::last and torch::jit::drop, as runKernel uses them
last(stk, n) == SubSeq(stk, Len(stk) - n + 1, Len(stk))
drop(stk, n) == SubSeq(stk, 1, Len(stk) - n)

\* CodeGen::CallArg: an immediate or a pointer
ImmArg(idx) == [isImm |-> TRUE, src |-> "input", idx |-> idx]
PtrArg(src, idx) == [isImm |-> FALSE, src |-> src, idx |-> idx]

\* TensorExprKernel::prepareRunArgs: the call arguments and the output
\* tensors it allocates
prepareRunArgs(inputs) ==
    LET handled == SelectSeq([i \in 1..Len(inputs) |-> i],
                       LAMBDA i : inputs[i].tag \in {"Int", "Double", "Tensor"})
        inArgs == [k \in 1..Len(handled) |->
                      IF inputs[handled[k]].tag = "Tensor"
                      THEN PtrArg("input", inputs[handled[k]].idx)
                      ELSE ImmArg(inputs[handled[k]].idx)]
        outputs == [j \in 1..Len(bufOutputs_) |->
                       IValue("Tensor", "kernel", bufOutputs_[j])]
        outArgs == [j \in 1..Len(bufOutputs_) |->
                       PtrArg("output", bufOutputs_[j])]
        constArgs == [k \in 1..Len(constants_) |->
                         PtrArg(constants_[k].kind, constants_[k].idx)]
    IN  [runArgs |-> inArgs \o outArgs \o constArgs, outputs |-> outputs]

\* mutant: the inputs are dropped before the kernel is called
runKernel_DropFirst(stk, callOk) ==
    LET p == prepareRunArgs(last(stk, nInputs_))
    IN  [threw |-> ~callOk, runArgs |-> p.runArgs,
         stack |-> IF callOk THEN drop(stk, nInputs_) \o p.outputs
                   ELSE drop(stk, nInputs_)]

\* mutant: the outputs are pushed without dropping the consumed inputs
runKernel_NoDrop(stk, callOk) ==
    LET p == prepareRunArgs(last(stk, nInputs_))
    IN  [threw |-> ~callOk, runArgs |-> p.runArgs,
         stack |-> IF callOk THEN stk \o p.outputs ELSE stk]

\* TensorExprKernel::runKernel; callOk: prepareRunArgs and codegen_->call
\* return without throwing
runKernel(stk, callOk) ==
    LET p == prepareRunArgs(last(stk, nInputs_))
    IN  [threw |-> ~callOk, runArgs |-> p.runArgs,
         stack |-> IF callOk THEN drop(stk, nInputs_) \o p.outputs ELSE stk]

\* TensorExprKernel::fallback: the interpreter runs the original subgraph
fallback(stk, fbOk) ==
    [threw |-> ~fbOk,
     stack |-> IF fbOk
               THEN drop(stk, Len(graph_.inputs)) \o
                    [j \in 1..Len(graph_.outputs) |->
                        IValue("Tensor", "interpreter", graph_.outputs[j])]
               ELSE stk]

RunResult(cs, k, threw, stk, args) ==
    [calls |-> cs, kernelThrew |-> k, threw |-> threw, stack |-> stk,
     runArgs |-> args, use |-> use_fallback_, fallbackStack |-> <<>>]

\* mutant: a failure of the compiled kernel is caught even when fallback is
\* not allowed
runOutcome_AlwaysCatch(stk, callOk, fbOk) ==
    IF ~use_fallback_
    THEN LET k == runKernel(stk, callOk)
             f == fallback(k.stack, fbOk)
         IN  IF k.threw
             THEN [RunResult(<<"runKernel", "fallback">>, TRUE, f.threw,
                             f.stack, k.runArgs)
                       EXCEPT !.fallbackStack = k.stack]
             ELSE RunResult(<<"runKernel">>, FALSE, FALSE, k.stack, k.runArgs)
    ELSE LET f == fallback(stk, fbOk)
         IN  [RunResult(<<"fallback">>, FALSE, f.threw, f.stack, <<>>)
                 EXCEPT !.fallbackStack = stk]

\* mutant: a failure of the compiled kernel switches the kernel to fallback
\* mode
runOutcome_StickyFallback(stk, callOk, fbOk) ==
    IF ~use_fallback_ /\ ~allow_fallback_
    THEN LET k == runKernel(stk, callOk)
         IN  RunResult(<<"runKernel">>, k.threw, k.threw, k.stack, k.runArgs)
    ELSE IF ~use_fallback_ /\ allow_fallback_
    THEN LET k == runKernel(stk, callOk)
             f == fallback(k.stack, fbOk)
         IN  IF k.threw
             THEN [RunResult(<<"runKernel", "fallback">>, TRUE, f.threw,
                             f.stack, k.runArgs)
                       EXCEPT !.use = TRUE, !.fallbackStack = k.stack]
             ELSE RunResult(<<"runKernel">>, FALSE, FALSE, k.stack, k.runArgs)
    ELSE LET f == fallback(stk, fbOk)
         IN  [RunResult(<<"fallback">>, FALSE, f.threw, f.stack, <<>>)
                 EXCEPT !.fallbackStack = stk]

\* TensorExprKernel::run: what it calls, whether it throws, and the stack and
\* use_fallback_ it leaves
runOutcome(stk, callOk, fbOk) ==
    IF ~use_fallback_ /\ ~allow_fallback_
    THEN LET k == runKernel(stk, callOk)
         IN  RunResult(<<"runKernel">>, k.threw, k.threw, k.stack, k.runArgs)
    ELSE IF ~use_fallback_ /\ allow_fallback_
    THEN LET k == runKernel(stk, callOk)
             f == fallback(k.stack, fbOk)
         IN  IF k.threw
             THEN [RunResult(<<"runKernel", "fallback">>, TRUE, f.threw,
                             f.stack, k.runArgs)
                       EXCEPT !.fallbackStack = k.stack]
             ELSE RunResult(<<"runKernel">>, FALSE, FALSE, k.stack, k.runArgs)
    ELSE LET f == fallback(stk, fbOk)
         IN  [RunResult(<<"fallback">>, FALSE, f.threw, f.stack, <<>>)
                 EXCEPT !.fallbackStack = stk]

\* a call of run() on the constructed kernel
Run(below, callOk, fbOk) ==
    /\ pc = "constructed"
    /\ LET stk == callerStack(graph_, below)
           r == runOutcome(stk, callOk, fbOk)
       IN  /\ stackIn' = stk
           /\ fallbackStack' = r.fallbackStack
           /\ stack' = r.stack
           /\ calls' = r.calls
           /\ kernelThrew' = r.kernelThrew
           /\ runThrew' = r.threw
           /\ runArgs' = r.runArgs
           /\ use_fallback_' = r.use
           /\ prevKernelFailed' = (prevKernelFailed \/ kernelThrew)
    /\ UNCHANGED <<config, fallback_allowed, graph_, pre_alloc_, pc,
                   allow_fallback_, compileResult, backendResult, nInputs_,
                   bufferArgs_, constants_, bufOutputs_, codegen_, symbolic,
                   applied>>

\* --------------------------------------------------------------- recompile
\* void TensorExprKernel::recompile(): the codegen_ it leaves; createOk:
\* CreateCodeGen returns without throwing
recompile(codegen, createOk) ==
    IF createOk THEN "llvm_codegen" ELSE codegen

\* a call of recompile() on a kernel that compile() completed
Recompile(createOk) ==
    /\ pc = "constructed"
    /\ compileResult = "ok"
    /\ codegen_' = recompile(codegen_, createOk)
    /\ UNCHANGED <<config, fallback_allowed, graph_, pre_alloc_, pc,
                   allow_fallback_, use_fallback_, compileResult,
                   backendResult, nInputs_, bufferArgs_, constants_,
                   bufOutputs_, lastRun, symbolic, applied>>

\* --------------------------------------------------------- symbolic shapes
\* a c10::ShapeSymbol: a static size (>= 0) or the id of a dynamic one (< 0)
ShapeSymbols == {-2, -1, 4}
\* longest symbolic shape
MaxRank == 2
\* the integers a caller passes for the symbolic dimensions
DimValues == {3, 5}
\* the threads that may call run()
Threads == {1, 2}
\* calls of run() on one kernel
MaxCalls == 2

LongImm(n) == [node |-> "LongImm", hint |-> "", value |-> n]
VarHandle(hint, n) == [node |-> "Var", hint |-> hint, value |-> n]

\* TensorType::contiguousStridesOf
RECURSIVE contiguousStridesOf(_)
contiguousStridesOf(sizes) ==
    IF Len(sizes) = 0 THEN <<>>
    ELSE LET rest == contiguousStridesOf(Tail(sizes))
         IN  IF Len(sizes) = 1 THEN <<1>>
             ELSE <<rest[1] * sizes[2]>> \o rest

\* ExprHandle getVarForShape(const c10::ShapeSymbol& ss): the expression and
\* shapeSymbolToVar_ after the call
getVarForShape(ss, symToVar) ==
    IF ss >= 0
    THEN [expr |-> LongImm(ss), symToVar |-> symToVar]
    ELSE IF ss \notin DOMAIN symToVar
    THEN LET var == VarHandle("ss", -ss)
         IN  [expr |-> var,
              symToVar |-> [s \in DOMAIN symToVar \cup {ss} |->
                               IF s = ss THEN var ELSE symToVar[s]]]
    ELSE [expr |-> symToVar[ss], symToVar |-> symToVar]

\* sizesFromSymbolicShape, and the loop of bindSymbolicShapeInput
RECURSIVE sizesFromSymbolicShape(_, _)
sizesFromSymbolicShape(shape, symToVar) ==
    IF shape = <<>> THEN [dims |-> <<>>, symToVar |-> symToVar]
    ELSE LET d == getVarForShape(Head(shape), symToVar)
             r == sizesFromSymbolicShape(Tail(shape), d.symToVar)
         IN  [dims |-> <<d.expr>> \o r.dims, symToVar |-> r.symToVar]

\* the symbolic sizes of the outputs, in graph order (compile(), the loop
\* over graph_->outputs())
RECURSIVE outputSymbolicSizes(_, _)
outputSymbolicSizes(shapes, symToVar) ==
    IF shapes = <<>> THEN [sizes |-> <<>>, symToVar |-> symToVar]
    ELSE LET s == sizesFromSymbolicShape(Head(shapes), symToVar)
             r == outputSymbolicSizes(Tail(shapes), s.symToVar)
         IN  [sizes |-> <<s.dims>> \o r.sizes, symToVar |-> r.symToVar]

\* the part of bindAllInputs() for the symbolic input params: a variable for
\* each of them, its input position, and the shape symbol it stands for.
\* Input positions count from 0; the tensor input is input 0.
symbolicInputVars(g) ==
    LET n == Len(g.symbolic_shape_inputs)
        symbolic_shape_inputs_start_pos == g.nInputs - n
        v(i) == VarHandle("v", i)
        ids == {g.symbolic_shape_inputs[k] : k \in 1..n}
        lastOf(id) == CHOOSE k \in 1..n :
                          /\ g.symbolic_shape_inputs[k] = id
                          /\ \A j \in (k + 1)..n : g.symbolic_shape_inputs[j] # id
    IN  [pos |-> [x \in {v(i) : i \in symbolic_shape_inputs_start_pos..
                                       (g.nInputs - 1)} |-> x.value],
         symToVar |-> [id \in ids |->
                          v(symbolic_shape_inputs_start_pos + lastOf(id) - 1)]]

\* compile() of a subgraph with symbolic shapes, as far as the shape
\* variables go
compileShapes(g) ==
    LET ins == symbolicInputVars(g)
        inBuffer == sizesFromSymbolicShape(g.inputShape, ins.symToVar)
        outs == outputSymbolicSizes(g.outputShapes, inBuffer.symToVar)
    IN  [shapeSymbolToVar |-> outs.symToVar,
         shapeSymbolInputPos |-> ins.pos,
         inputBufDims |-> inBuffer.dims,
         tensorOutputSymbolicSizes |-> outs.sizes,
         tensorOutputSizes |-> [i \in 1..Len(g.outputShapes) |-> <<>>],
         tensorOutputStrides |-> [i \in 1..Len(g.outputShapes) |-> <<>>]]

\* compile() of the subgraph with symbolic shapes; ok is whether lowering,
\* transformLoops and CreateCodeGen went through
CompileShapes(ok) ==
    /\ symPc = "start"
    /\ LET c == compileShapes(symGraph)
       IN  /\ symPc' = IF ok THEN "compiled" ELSE "compileThrew"
           /\ shapeSymbolToVar_' = c.shapeSymbolToVar
           /\ shapeSymbolInputPos_' = c.shapeSymbolInputPos
           /\ inputBufDims' = c.inputBufDims
           /\ tensorOutputSymbolicSizes_' = c.tensorOutputSymbolicSizes
           /\ tensorOutputSizes_' = c.tensorOutputSizes
           /\ tensorOutputStrides_' = c.tensorOutputStrides
    /\ UNCHANGED <<config, fallback_allowed, graph_, pre_alloc_, kernel,
                   lastRun, symGraph, callers, call, nCalls, applied>>

\* the inputs of one call: the tensor, then the symbolic dims
TensorInput == [isInt |-> FALSE, int |-> 0]
IntInput(n) == [isInt |-> TRUE, int |-> n]
callInputs(ints) == <<TensorInput>> \o [k \in 1..Len(ints) |-> IntInput(ints[k])]

\* prepareRunArgs(): the inner loop over tensorOutputSymbolicSizes_[i], which
\* fills tensorOutputSizes_[i] until a dimension cannot be resolved
RECURSIVE resolveSizes(_, _, _)
resolveSizes(dims, inputPos, inputs) ==
    IF dims = <<>> THEN [threw |-> FALSE, sizes |-> <<>>]
    ELSE LET t == Head(dims)
         IN  IF t.node # "LongImm" /\
                  (\/ t \notin DOMAIN inputPos
                   \/ ~(inputPos[t] < Len(inputs))
                   \/ ~inputs[inputPos[t] + 1].isInt)
             THEN \* shapeSymbolInputPos_.at() or an assertion throws
                  [threw |-> TRUE, sizes |-> <<>>]
             ELSE LET size == IF t.node = "LongImm" THEN t.value
                              ELSE inputs[inputPos[t] + 1].int
                      r == resolveSizes(Tail(dims), inputPos, inputs)
                  IN  [threw |-> r.threw, sizes |-> <<size>> \o r.sizes]

IdleCall == [pc |-> "idle", inputs |-> <<>>, i |-> 0, outputs |-> <<>>,
             prevInputs |-> <<>>]

\* thread t enters run() -> runKernel() -> prepareRunArgs()
BeginCall(t, ints) ==
    /\ symPc = "compiled"
    /\ t \in callers
    /\ call[t].pc \in {"idle", "done", "threw"}
    /\ nCalls < MaxCalls
    /\ Len(ints) = Len(symGraph.symbolic_shape_inputs)
    /\ nCalls' = nCalls + 1
    /\ call' = [call EXCEPT ![t] =
                   [pc |-> "resolve", inputs |-> callInputs(ints), i |-> 1,
                    outputs |-> <<>>,
                    prevInputs |-> IF call[t].pc = "done"
                                   THEN call[t].inputs ELSE call[t].prevInputs]]
    /\ UNCHANGED <<config, fallback_allowed, graph_, pre_alloc_, kernel,
                   lastRun, symGraph, symPc, shapeSymbolToVar_,
                   shapeSymbolInputPos_, inputBufDims,
                   tensorOutputSymbolicSizes_, tensorOutputSizes_,
                   tensorOutputStrides_, callers, applied>>

\* prepareRunArgs() resolving the sizes of an output only when no call has
\* resolved them before
ResolveOutput_OnceOnly(t) ==
    /\ call[t].pc = "resolve"
    /\ LET i == call[t].i
           r == resolveSizes(tensorOutputSymbolicSizes_[i],
                             shapeSymbolInputPos_, call[t].inputs)
           first == tensorOutputSizes_[i] = <<>>
       IN  /\ tensorOutputSizes_' =
                  IF first THEN [tensorOutputSizes_ EXCEPT ![i] = r.sizes]
                  ELSE tensorOutputSizes_
           /\ tensorOutputStrides_' =
                  IF r.threw \/ ~first THEN tensorOutputStrides_
                  ELSE [tensorOutputStrides_ EXCEPT
                           ![i] = contiguousStridesOf(r.sizes)]
           /\ call' = [call EXCEPT ![t] =
                  IF r.threw THEN [@ EXCEPT !.pc = "threw"]
                  ELSE IF i = Len(tensorOutputSymbolicSizes_)
                  THEN [@ EXCEPT !.pc = "allocate", !.i = 1]
                  ELSE [@ EXCEPT !.i = i + 1]]
    /\ UNCHANGED <<config, fallback_allowed, graph_, pre_alloc_, kernel,
                   lastRun, symGraph, symPc, shapeSymbolToVar_,
                   shapeSymbolInputPos_, inputBufDims,
                   tensorOutputSymbolicSizes_, callers, nCalls, applied>>

\* prepareRunArgs(), one pass of the loop under has_symbolic_shapes_: thread t
\* resolves the sizes of output i into the members
ResolveOutput(t) ==
    /\ call[t].pc = "resolve"
    /\ LET i == call[t].i
           r == resolveSizes(tensorOutputSymbolicSizes_[i],
                             shapeSymbolInputPos_, call[t].inputs)
       IN  /\ tensorOutputSizes_' = [tensorOutputSizes_ EXCEPT ![i] = r.sizes]
           /\ tensorOutputStrides_' =
                  IF r.threw THEN tensorOutputStrides_
                  ELSE [tensorOutputStrides_ EXCEPT
                           ![i] = contiguousStridesOf(r.sizes)]
           /\ call' = [call EXCEPT ![t] =
                  IF r.threw THEN [@ EXCEPT !.pc = "threw"]
                  ELSE IF i = Len(tensorOutputSymbolicSizes_)
                  THEN [@ EXCEPT !.pc = "allocate", !.i = 1]
                  ELSE [@ EXCEPT !.i = i + 1]]
    /\ UNCHANGED <<config, fallback_allowed, graph_, pre_alloc_, kernel,
                   lastRun, symGraph, symPc, shapeSymbolToVar_,
                   shapeSymbolInputPos_, inputBufDims,
                   tensorOutputSymbolicSizes_, callers, nCalls, applied>>

\* prepareRunArgs(), one pass of the loop that allocates the outputs: thread
\* t calls empty_strided with the members' sizes and strides of output i
AllocateOutput(t) ==
    /\ call[t].pc = "allocate"
    /\ LET i == call[t].i
           o == [sizes |-> tensorOutputSizes_[i],
                 strides |-> tensorOutputStrides_[i]]
       IN  call' = [call EXCEPT ![t] =
               IF i = Len(tensorOutputSizes_)
               THEN [@ EXCEPT !.pc = "done", !.outputs = Append(@, o)]
               ELSE [@ EXCEPT !.i = i + 1, !.outputs = Append(@, o)]]
    /\ UNCHANGED <<config, fallback_allowed, graph_, pre_alloc_, kernel,
                   lastRun, symGraph, symPc, shapeSymbolToVar_,
                   shapeSymbolInputPos_, inputBufDims,
                   tensorOutputSymbolicSizes_, tensorOutputSizes_,
                   tensorOutputStrides_, callers, nCalls, applied>>

\* ------------------------------------------------------- output restriding
\* the sizes of an output dimension
SizeValues == {1, 2, 3}
\* longest size vector of an output
MaxDims == MaxRank + 1

\* the orders of the dimensions 1..n
Orders(n) == {p \in [1..n -> 1..n] : \A i, j \in 1..n : p[i] = p[j] => i = j}

RECURSIVE dot(_, _)
dot(a, b) == IF a = <<>> THEN 0 ELSE a[1] * b[1] + dot(Tail(a), Tail(b))

\* the strides that lay the dimensions out densely with order[1] innermost
stridesInOrder(sizes, order) ==
    LET RECURSIVE below(_)
        below(k) == IF k = 1 THEN 1 ELSE below(k - 1) * sizes[order[k - 1]]
        at(d) == CHOOSE k \in 1..Len(sizes) : order[k] = d
    IN  [d \in 1..Len(sizes) |-> below(at(d))]

\* at::infer_dense_strides: the strides of a dense layout in the order of the
\* given strides; they equal the given strides when those are dense and
\* non-overlapping
infer_dense_strides(sizes, strides) ==
    IF \E p \in Orders(Len(sizes)) : stridesInOrder(sizes, p) = strides
    THEN strides
    ELSE contiguousStridesOf(sizes)

\* bool denseAndNonOverlapping(sizes, strides)
denseAndNonOverlapping(sizes, strides) ==
    strides = infer_dense_strides(sizes, strides)

\* reverse_sort_indices(v): std::sort by v[i1] > v[i2] leaves the order of
\* equal elements open, so every order that is descending may come out
reverse_sort_indices(v) ==
    {p \in Orders(Len(v)) : \A k \in 1..(Len(v) - 1) : v[p[k]] >= v[p[k + 1]]}

\* the loop over sorted_stride_indices without the test of size != 1
RECURSIVE newAxes_NoSizeTest(_, _, _, _, _)
newAxes_NoSizeTest(order, absolute_position, new_axes, sizes, strides) ==
    IF order = <<>> THEN new_axes
    ELSE LET stride_index == Head(order)
             stride == strides[stride_index]
         IN  newAxes_NoSizeTest(Tail(order), absolute_position % stride,
                     [new_axes EXCEPT
                         ![stride_index] = absolute_position \div stride],
                     sizes, strides)

\* the loop over sorted_stride_indices in the body of output_1
RECURSIVE newAxes(_, _, _, _, _)
newAxes(order, absolute_position, new_axes, sizes, strides) ==
    IF order = <<>> THEN new_axes
    ELSE LET stride_index == Head(order)
             size == sizes[stride_index]
             stride == strides[stride_index]
         IN  IF size # 1
             THEN newAxes(Tail(order), absolute_position % stride,
                          [new_axes EXCEPT
                              ![stride_index] = absolute_position \div stride],
                          sizes, strides)
             ELSE newAxes(Tail(order), absolute_position,
                          [new_axes EXCEPT ![stride_index] = 0],
                          sizes, strides)

\* the logical indices of a tensor of these sizes
AllAxes(sizes) ==
    {a \in [1..Len(sizes) -> 0..(Max(SizeValues) - 1)] : \A i \in 1..Len(sizes) : a[i] < sizes[i]}

\* the body of output_1 computing an index for size-1 dimensions too
restrideIndex_NoSizeTest(sizes, strides, order) ==
    LET default_strides == contiguousStridesOf(sizes)
    IN  [axes \in AllAxes(sizes) |->
            newAxes_NoSizeTest(order, dot(default_strides, axes),
                               [i \in 1..Len(sizes) |-> 0], sizes, strides)]

\* the body of the compute output_1: for the axes of an element, the index
\* at which buf is loaded
restrideIndex(sizes, strides, order) ==
    LET default_strides == contiguousStridesOf(sizes)
    IN  [axes \in AllAxes(sizes) |->
            newAxes(order, dot(default_strides, axes),
                    [i \in 1..Len(sizes) |-> 0], sizes, strides)]

Known(v) == [known |-> TRUE, value |-> v]
Unknown == [known |-> FALSE, value |-> <<>>]

\* Tensor convertOutputToCorrectStrides(torch::jit::Value* v), for the
\* declared sizes and strides of v and an outcome of the sort
convertOutputToCorrectStrides(sizes, strides, order) ==
    IF ~sizes.known
    THEN [threw |-> TRUE, buf |-> "none", stmt |-> FALSE, load |-> <<>>]
    ELSE IF \/ ~strides.known
            \/ strides.value = contiguousStridesOf(sizes.value)
            \/ ~denseAndNonOverlapping(sizes.value, strides.value)
    THEN [threw |-> FALSE, buf |-> "buf", stmt |-> FALSE, load |-> <<>>]
    ELSE [threw |-> FALSE, buf |-> "output_1", stmt |-> TRUE,
          load |-> restrideIndex(sizes.value, strides.value, order)]

\* compile() recording the declared strides whenever they are known
outputStrides_WhenKnown(sizes, strides) ==
    IF strides.known THEN strides.value ELSE contiguousStridesOf(sizes)

\* compile(): the strides pushed to tensorOutputStrides_ for an output
outputStrides(sizes, strides) ==
    IF strides.known /\ denseAndNonOverlapping(sizes, strides.value)
    THEN strides.value
    ELSE contiguousStridesOf(sizes)

\* compile(), the pass of the loop over graph_->outputs() for an output of
\* a subgraph without symbolic shapes
ConvertOutput(order) ==
    /\ fn = "none"
    /\ arg.strides.known => order \in reverse_sort_indices(arg.strides.value)
    /\ ~arg.strides.known => order = <<>>
    /\ LET t == convertOutputToCorrectStrides(arg.sizes, arg.strides, order)
       IN  /\ fn' = "convertOutputToCorrectStrides"
           /\ res' = IF t.threw
                     THEN [threw |-> TRUE, buf |-> t.buf, stmt |-> t.stmt,
                           load |-> t.load, tensorOutputStrides |-> <<>>]
                     ELSE [threw |-> FALSE, buf |-> t.buf, stmt |-> t.stmt,
                           load |-> t.load,
                           tensorOutputStrides |->
                               outputStrides(arg.sizes.value, arg.strides)]
    /\ UNCHANGED <<config, fallback_allowed, graph_, pre_alloc_, kernel,
                   lastRun, symbolic, arg>>

\* ------------------------------------------------------------- loop fusion
\* most statements in a block
MaxStmts == 2

\* a statement: a loop over a block, or a store to a buffer; fusedFrom holds
\* the bounds of the loops a fused loop was made of
For(start, stop, body) ==
    [kind |-> "For", buf |-> "", start |-> start, stop |-> stop,
     body |-> body, fusedFrom |-> <<>>, parallel |-> FALSE]
Store(buf) ==
    [kind |-> "Store", buf |-> buf, start |-> LongImm(0), stop |-> LongImm(0),
     body |-> <<>>, fusedFrom |-> <<>>, parallel |-> FALSE]

NoBounds == [constant |-> FALSE, first |-> 0, second |-> 0]

\* loopBounds(ForPtr loop): the bounds when both are constants
loopBounds(loop) ==
    IF loop.start.node # "LongImm" \/ loop.stop.node # "LongImm"
    THEN NoBounds
    ELSE [constant |-> TRUE, first |-> loop.start.value,
          second |-> loop.stop.value]

\* loopBoundsAllEqual comparing the lower bounds only
loopBoundsAllEqual_LowerOnly(loops) ==
    LET bounds == loopBounds(loops[1])
    IN  /\ bounds.constant
        /\ \A i \in 1..Len(loops) :
               LET next == loopBounds(loops[i])
               IN  next.constant /\ bounds.first = next.first

\* bool loopBoundsAllEqual(const std::vector<ForPtr>& loops)
loopBoundsAllEqual(loops) ==
    LET bounds == loopBounds(loops[1])
    IN  /\ bounds.constant
        /\ \A i \in 1..Len(loops) :
               LET next == loopBounds(loops[i])
               IN  /\ next.constant
                   /\ ~(bounds.first # next.first \/ bounds.second # next.second)

RECURSIVE concatBodies(_)
concatBodies(loops) ==
    IF loops = <<>> THEN <<>> ELSE Head(loops).body \o concatBodies(Tail(loops))

\* LoopNest::fuseLoops: one loop with the bounds of the first and the bodies
\* of all, in order
fuseLoops(loops) ==
    [kind |-> "For", buf |-> "", start |-> loops[1].start,
     stop |-> loops[1].stop, body |-> concatBodies(loops),
     fusedFrom |-> [i \in 1..Len(loops) |-> <<loops[i].start, loops[i].stop>>],
     parallel |-> FALSE]

\* void fuseAllLoops(StmtPtr st) on the block st at this level of the
\* recursion; LoopNest::fuseLoops returns false at level failAt
RECURSIVE fuseAllLoops(_, _, _)
fuseAllLoops(block, failAt, level) ==
    IF \E i \in 1..Len(block) : block[i].kind # "For"
    THEN block
    ELSE IF block = <<>>
    THEN block
    ELSE IF ~loopBoundsAllEqual(block)
    THEN block
    ELSE IF failAt = level
    THEN block
    ELSE LET fusedLoop == fuseLoops(block)
         IN  <<[fusedLoop EXCEPT
                   !.body = fuseAllLoops(fusedLoop.body, failAt, level + 1)]>>

\* transformLoops() on the LLVM backend calling fuseAllLoops on the root
FuseAllLoops ==
    /\ fn = "none"
    /\ arg.pass = "fuseAllLoops"
    /\ fn' = "fuseAllLoops"
    /\ res' = [root |-> fuseAllLoops(arg.root, arg.failAt, 1)]
    /\ UNCHANGED <<config, fallback_allowed, graph_, pre_alloc_, kernel,
                   lastRun, symbolic, arg>>

\* -------------------------------------------------- outer-loop parallelism
\* constexpr int64_t minGrainSize
minGrainSize == 32768
\* deepest loop nest around the computation of a buffer
MaxNest == 3

\* the int64_t product of a running product and a trip count, exact below
\* minGrainSize; a product that reaches minGrainSize is kept at it, since
\* the passes only compare products with minGrainSize and with the thread
\* count
times(a, b) == IF a * b < minGrainSize THEN a * b ELSE minGrainSize

NoTripCount == [constant |-> FALSE, value |-> 0]

\* tripCount(ForPtr loop): stop - start when it simplifies to a constant
tripCount(loop) ==
    IF loop.start.node = "LongImm" /\ loop.stop.node = "LongImm"
    THEN [constant |-> TRUE, value |-> loop.stop.value - loop.start.value]
    ELSE NoTripCount

\* pruneByGrainSize popping a loop also when the grain size is just reached
RECURSIVE pruneByGrainSizeFrom_AtMost(_, _, _)
pruneByGrainSizeFrom_AtMost(loops, i, grainSize) ==
    IF ~(i > 0) THEN loops
    ELSE LET tc == tripCount(loops[i])
         IN  IF ~tc.constant THEN loops
             ELSE IF times(grainSize, tc.value) <= minGrainSize
             THEN pruneByGrainSizeFrom_AtMost(SubSeq(loops, 1, Len(loops) - 1),
                                             i - 1, times(grainSize, tc.value))
             ELSE pruneByGrainSizeFrom_AtMost(loops, i - 1,
                                             times(grainSize, tc.value))

\* the loop of pruneByGrainSize from i down, with the grain size so far
RECURSIVE pruneByGrainSizeFrom(_, _, _)
pruneByGrainSizeFrom(loops, i, grainSize) ==
    IF ~(i > 0) THEN loops
    ELSE LET tc == tripCount(loops[i])
         IN  IF ~tc.constant THEN loops
             ELSE IF times(grainSize, tc.value) < minGrainSize
             THEN pruneByGrainSizeFrom(SubSeq(loops, 1, Len(loops) - 1),
                                      i - 1, times(grainSize, tc.value))
             ELSE pruneByGrainSizeFrom(loops, i - 1,
                                       times(grainSize, tc.value))

pruneByGrainSize_AtMost(loops) ==
    pruneByGrainSizeFrom_AtMost(loops, Len(loops), 1)

\* static void pruneByGrainSize(std::vector<ForPtr>& loops)
pruneByGrainSize(loops) == pruneByGrainSizeFrom(loops, Len(loops), 1)

\* the loop of pruneByThreadCount: where the iterator it stops
RECURSIVE threadCountStop(_, _, _, _)
threadCountStop(loops, it, trips, threads) ==
    IF it > Len(loops) THEN it
    ELSE IF trips >= threads THEN it
    ELSE LET tc == tripCount(loops[it])
         IN  IF ~tc.constant THEN it
             ELSE threadCountStop(loops, it + 1, times(trips, tc.value),
                                  threads)

\* pruneByThreadCount erasing nothing
pruneByThreadCount_KeepAll(loops, threads) == loops

\* static void pruneByThreadCount(std::vector<ForPtr>& loops), with the
\* value of at::get_num_threads()
pruneByThreadCount(loops, threads) ==
    SubSeq(loops, 1, threadCountStop(loops, 1, 1, threads) - 1)

NotParallelized(afterGrain, loops) ==
    [afterGrain |-> afterGrain, candidates |-> loops, flattened |-> FALSE,
     parallel |-> <<>>]

\* parallelizeOuterLoops without the test for loop-carried dependences
parallelizeOuterLoops_NoDependenceTest(nest, threads, hasReduction, hasLoopCarriedDependence, flattenOk) ==
    LET afterGrain == pruneByGrainSize(nest)
        loops == pruneByThreadCount(afterGrain, threads)
    IN  IF Len(loops) = 0 THEN NotParallelized(afterGrain, loops)
        ELSE IF hasReduction THEN NotParallelized(afterGrain, loops)
        ELSE IF Len(loops) = 1
        THEN [afterGrain |-> afterGrain, candidates |-> loops,
              flattened |-> FALSE, parallel |-> loops]
        ELSE IF flattenOk
        THEN [afterGrain |-> afterGrain, candidates |-> loops,
              flattened |-> TRUE, parallel |-> loops]
        ELSE NotParallelized(afterGrain, loops)

\* parallelizeOuterLoops(l, bufs), one pass of its loop: nest is
\* l.getLoopStmtsFor(buf), outermost loop first; parallel is the loops that
\* the loop marked parallel was formed from
parallelizeOuterLoops(nest, threads, hasReduction, hasLoopCarriedDependence, flattenOk) ==
    LET afterGrain == pruneByGrainSize(nest)
        loops == pruneByThreadCount(afterGrain, threads)
    IN  IF Len(loops) = 0 THEN NotParallelized(afterGrain, loops)
        ELSE IF hasReduction THEN NotParallelized(afterGrain, loops)
        ELSE IF hasLoopCarriedDependence
        THEN NotParallelized(afterGrain, loops)
        ELSE IF Len(loops) = 1
        THEN [afterGrain |-> afterGrain, candidates |-> loops,
              flattened |-> FALSE, parallel |-> loops]
        ELSE IF flattenOk
        THEN [afterGrain |-> afterGrain, candidates |-> loops,
              flattened |-> TRUE, parallel |-> loops]
        ELSE NotParallelized(afterGrain, loops)

\* transformLoops() on the LLVM backend calling parallelizeOuterLoops
ParallelizeOuterLoops ==
    /\ fn = "none"
    /\ arg.pass = "parallelizeOuterLoops"
    /\ fn' = "parallelizeOuterLoops"
    /\ res' = parallelizeOuterLoops(arg.nest, arg.threads, arg.hasReduction,
                                    arg.hasLoopCarriedDependence,
                                    arg.flattenOk)
    /\ UNCHANGED <<config, fallback_allowed, graph_, pre_alloc_, kernel,
                   lastRun, symbolic, arg>>

\* ------------------------------------------------------- CUDA loop mapping
\* the mapping of one output buffer's flattened loop
Skipped == [skipped |-> TRUE, loopLevels |-> 0, splits |-> <<>>]
Mapped(loopLevels, splits) ==
    [skipped |-> FALSE, loopLevels |-> loopLevels, splits |-> splits]
InvalidLoopLevel(loopLevels) ==
    [threw |-> TRUE, what |-> <<"Invalid loop-level", loopLevels>>,
     mapping |-> <<>>]

\* the body of the loop over bufOutputs_ for a buffer with this many
\* surrounding loops; the mapping, or levels |-> "invalid"
cudaMapOutput(nLoops, configuredLevels, configuredCount, configuredSize) ==
    LET loopLevels == IF configuredLevels > 0 THEN configuredLevels ELSE 2
    IN  IF nLoops = 0 THEN [ok |-> TRUE, m |-> Skipped]
        ELSE IF loopLevels = 2
        THEN LET blockSize == IF configuredSize < 0 THEN 512
                              ELSE configuredSize
             IN  [ok |-> TRUE, m |-> Mapped(2, <<blockSize>>)]
        ELSE IF loopLevels = 3
        THEN LET blockCount == IF configuredCount > 0 THEN configuredCount
                               ELSE 1280
                 blockSize == IF configuredSize > 0 THEN configuredSize
                              ELSE 256
             IN  [ok |-> TRUE,
                  m |-> Mapped(3, <<blockCount * blockSize, blockSize>>)]
        ELSE [ok |-> FALSE, m |-> Mapped(loopLevels, <<>>)]

\* the CUDA branch of transformLoops checking the loop level of a buffer
\* without loops too
RECURSIVE transformLoopsCuda_NoSkip(_, _, _, _)
transformLoopsCuda_NoSkip(outputs, loopLevels, blockCount, blockSize) ==
    IF outputs = <<>> THEN [threw |-> FALSE, what |-> <<>>, mapping |-> <<>>]
    ELSE LET o == cudaMapOutput(Head(outputs) + 1, loopLevels, blockCount,
                                blockSize)
             rest == transformLoopsCuda_NoSkip(Tail(outputs), loopLevels,
                                               blockCount, blockSize)
         IN  IF ~o.ok THEN InvalidLoopLevel(o.m.loopLevels)
             ELSE IF rest.threw THEN rest
             ELSE [rest EXCEPT !.mapping = <<o.m>> \o @]

\* the CUDA branch of transformLoops: outputs holds, for each buffer of
\* bufOutputs_, the number of loops around it
RECURSIVE transformLoopsCuda(_, _, _, _)
transformLoopsCuda(outputs, loopLevels, blockCount, blockSize) ==
    IF outputs = <<>> THEN [threw |-> FALSE, what |-> <<>>, mapping |-> <<>>]
    ELSE LET o == cudaMapOutput(Head(outputs), loopLevels, blockCount,
                                blockSize)
             rest == transformLoopsCuda(Tail(outputs), loopLevels, blockCount,
                                        blockSize)
         IN  IF ~o.ok THEN InvalidLoopLevel(o.m.loopLevels)
             ELSE IF rest.threw THEN rest
             ELSE [rest EXCEPT !.mapping = <<o.m>> \o @]

\* transformLoops() on the CUDA backend
TransformLoopsCuda ==
    /\ fn = "none"
    /\ arg.pass = "transformLoopsCuda"
    /\ fn' = "transformLoopsCuda"
    /\ res' = transformLoopsCuda(arg.outputs, arg.loopLevels, arg.blockCount,
                                 arg.blockSize)
    /\ UNCHANGED <<config, fallback_allowed, graph_, pre_alloc_, kernel,
                   lastRun, symbolic, arg>>

\* ------------------------------------------------- transformLoops as a whole
\* the Block branch of transformLoops for one buffer: TORCH_INTERNAL_ASSERT
\* of a loop around it, then a split by the block size of its dtype
blockMapOutput(nLoops, dtype) ==
    IF nLoops = 0 THEN [ok |-> FALSE, m |-> Skipped]
    ELSE [ok |-> TRUE,
          m |-> Mapped(2, <<IF dtype = "Byte" THEN 32 ELSE 16>>)]

\* the Block branch of transformLoops over bufOutputs_
RECURSIVE transformLoopsBlock(_, _)
transformLoopsBlock(outputs, dtypes) ==
    IF outputs = <<>> THEN [threw |-> FALSE, what |-> <<>>, mapping |-> <<>>]
    ELSE LET o == blockMapOutput(Head(outputs), Head(dtypes))
             rest == transformLoopsBlock(Tail(outputs), Tail(dtypes))
         IN  IF ~o.ok
             THEN [threw |-> TRUE,
                   what |-> <<"No loops found for the buffer">>,
                   mapping |-> <<>>]
             ELSE IF rest.threw THEN rest
             ELSE [rest EXCEPT !.mapping = <<o.m>> \o @]

\* the statement computing a buffer under nLoops loops of 1024 iterations
RECURSIVE nestStmt(_, _)
nestStmt(nLoops, buf) ==
    IF nLoops = 0 THEN Store(buf)
    ELSE For(LongImm(0), LongImm(1024), <<nestStmt(nLoops - 1, buf)>>)

\* l.getLoopStmtsFor(buf) for that statement, outermost loop first
loopStmtsFor(nLoops) ==
    [k \in 1..nLoops |-> For(LongImm(0), LongImm(1024), <<>>)]

\* LoopNest::flatten and LoopNest::splitWithMask as transformLoops calls them
\* for the buffers of a mapping
RECURSIVE mappingPasses(_)
mappingPasses(mapping) ==
    IF mapping = <<>> THEN <<>>
    ELSE (IF Head(mapping).skipped THEN <<>>
          ELSE <<"flatten">> \o
               [j \in 1..Len(Head(mapping).splits) |-> "splitWithMask"])
         \o mappingPasses(Tail(mapping))

NoBackendStep ==
    [threw |-> FALSE, what |-> <<>>, passes |-> <<>>, root |-> <<>>,
     parallel |-> <<>>, mapping |-> <<>>]

\* the backend-specific part of transformLoops, kernel.cpp:698-780
backendStep(backendType, in) ==
    LET root == [i \in 1..Len(in.outputs) |->
                    nestStmt(in.outputs[i], ToString(i))]
    IN  CASE backendType = "kLLVMCodeGen" ->
                 [NoBackendStep EXCEPT
                     !.passes = <<"fuseAllLoops", "parallelizeOuterLoops">>,
                     !.root = fuseAllLoops(root, 0, 1),
                     !.parallel =
                         [i \in 1..Len(in.outputs) |->
                             parallelizeOuterLoops(
                                 loopStmtsFor(in.outputs[i]), in.threads,
                                 in.hasReduction, FALSE, TRUE).parallel]]
          [] backendType = "kCudaCodeGen" ->
                 LET m == transformLoopsCuda(in.outputs, in.loopLevels,
                                             in.blockCount, in.blockSize)
                 IN  [NoBackendStep EXCEPT
                         !.threw = m.threw, !.what = m.what,
                         !.passes = mappingPasses(m.mapping),
                         !.root = root, !.mapping = m.mapping]
          [] backendType = "kBlockCodeGen" ->
                 LET m == transformLoopsBlock(in.outputs, in.dtypes)
                 IN  [NoBackendStep EXCEPT
                         !.threw = m.threw, !.what = m.what,
                         !.passes = mappingPasses(m.mapping),
                         !.root = root, !.mapping = m.mapping]
          [] OTHER -> [NoBackendStep EXCEPT !.root = root]

\* the passes of transformLoops before the backend-specific part
passesBefore(backendType, in) ==
    <<"sanitizeNames">>
    \o (IF backendType = "kBlockCodeGen" THEN <<"CreateBufferMap">> ELSE <<>>)
    \o <<"simplify", "inlineIntermediateBufs">>
    \o (IF in.optConditionals THEN <<"optimizeConditionals">> ELSE <<>>)

\* the passes of transformLoops after the backend-specific part
passesAfter(backendType, in) ==
    (IF in.pre_alloc THEN <<"preAllocIntermediateBufs">> ELSE <<>>)
    \o <<"prepareForCodegen", "simplify">>
    \o (IF backendType = "kLLVMCodeGen" /\ ~in.hasReduction
        THEN <<"vectorizeInnerLoops">> ELSE <<>>)
    \o <<"IRSimplifier::simplify">>

\* transformLoops optimizing the conditionals after the backend-specific part
transformLoops_ConditionalsLate(backendType, in) ==
    LET step == backendStep(backendType, in)
        before == <<"sanitizeNames">>
                  \o (IF backendType = "kBlockCodeGen"
                      THEN <<"CreateBufferMap">> ELSE <<>>)
                  \o <<"simplify", "inlineIntermediateBufs">>
        late == IF in.optConditionals THEN <<"optimizeConditionals">>
                ELSE <<>>
    IN  IF step.threw
        THEN [step EXCEPT !.passes = before \o @]
        ELSE [step EXCEPT
                 !.passes = before \o @ \o late \o passesAfter(backendType, in)]

\* StmtPtr TensorExprKernel::transformLoops(BackendType, StmtPtr): whether it
\* threw and the passes it called, in the order of the calls.  in holds the
\* number of loops around each buffer of bufOutputs_ and the settings read.
transformLoops(backendType, in) ==
    LET step == backendStep(backendType, in)
    IN  IF step.threw
        THEN [step EXCEPT !.passes = passesBefore(backendType, in) \o @]
        ELSE [step EXCEPT
                 !.passes = passesBefore(backendType, in) \o @
                            \o passesAfter(backendType, in)]

\* compile() from the call of transformLoops on: the name CreateCodeGen is
\* called with, "null" when transformLoops threw
codegenAfter(backendType, t) ==
    IF t.threw THEN "null" ELSE getCodeGenName(backendType)

\* compile() calling transformLoops and creating the codegen
TransformLoops ==
    /\ fn = "none"
    /\ arg.pass = "transformLoops"
    /\ fn' = "transformLoops"
    /\ LET t == transformLoops(arg.backendType, arg)
       IN  res' = [threw |-> t.threw, what |-> t.what, passes |-> t.passes,
                   root |-> t.root, parallel |-> t.parallel,
                   mapping |-> t.mapping,
                   codegen |-> codegenAfter(arg.backendType, t)]
    /\ UNCHANGED <<config, fallback_allowed, graph_, pre_alloc_, kernel,
                   lastRun, symbolic, arg>>

\* -------------------------------------------------------- input debug names
\* a name is a sequence of characters; most characters after the first that
\* a debug name of the model has
MaxSuffix == 2

\* sanitizeName: a character that cannot be in an identifier becomes "_"
sanitizeName(name) ==
    [i \in 1..Len(name) |-> IF name[i] \in {"a", "_"} THEN name[i] ELSE "_"]

\* the while loop of genInputDebugNames
RECURSIVE appendUntilFree(_, _)
appendUntilFree(sanitized_name, name_set) ==
    IF sanitized_name \in name_set
    THEN appendUntilFree(sanitized_name \o <<"_">>, name_set)
    ELSE sanitized_name

\* the loop of genInputDebugNames over the inputs from the given one on
RECURSIVE namesFrom_AppendOnce(_, _)
namesFrom_AppendOnce(debugNames, name_set) ==
    IF debugNames = <<>> THEN <<>>
    ELSE LET s == sanitizeName(Head(debugNames))
             sanitized_name == IF s \in name_set THEN s \o <<"_">> ELSE s
         IN  <<sanitized_name>> \o
             namesFrom_AppendOnce(Tail(debugNames),
                                  name_set \cup {sanitized_name})

RECURSIVE namesFrom(_, _)
namesFrom(debugNames, name_set) ==
    IF debugNames = <<>> THEN <<>>
    ELSE LET sanitized_name ==
                 appendUntilFree(sanitizeName(Head(debugNames)), name_set)
         IN  <<sanitized_name>> \o
             namesFrom(Tail(debugNames), name_set \cup {sanitized_name})

\* genInputDebugNames appending one underscore at most
genInputDebugNames_AppendOnce(debugNames) ==
    namesFrom_AppendOnce(debugNames, {})

\* void TensorExprKernel::genInputDebugNames(): input_name_map_, as the
\* names of the graph inputs in their order
genInputDebugNames(debugNames) == namesFrom(debugNames, {})

\* compile() calling genInputDebugNames
GenInputDebugNames ==
    /\ fn = "none"
    /\ arg.pass = "genInputDebugNames"
    /\ fn' = "genInputDebugNames"
    /\ res' = [input_name_map_ |-> genInputDebugNames(arg.debugNames)]
    /\ UNCHANGED <<config, fallback_allowed, graph_, pre_alloc_, kernel,
                   lastRun, symbolic, arg>>

\* ----------------------------------------------------------- specifications
Graph(ins, nSym, outs, nodes, interm, device) ==
    [inputs |-> ins, nSym |-> nSym, outputs |-> outs, nodes |-> nodes,
     interm |-> interm, device |-> device]

\* the kernel before its constructor has run
InitKernel ==
    /\ fallback_allowed = FALSE
    /\ pc = "start"
    /\ allow_fallback_ = FALSE
    /\ use_fallback_ = use_fallback_default
    /\ compileResult = "notCalled"
    /\ backendResult = NotCompiled.backendResult
    /\ nInputs_ = NotCompiled.nInputs
    /\ bufferArgs_ = NotCompiled.bufferArgs
    /\ constants_ = NotCompiled.constants
    /\ bufOutputs_ = NotCompiled.bufOutputs
    /\ codegen_ = NotCompiled.codegen
    /\ stack = <<>>
    /\ stackIn = <<>>
    /\ fallbackStack = <<>>
    /\ calls = <<>>
    /\ kernelThrew = FALSE
    /\ runThrew = FALSE
    /\ runArgs = <<>>
    /\ prevKernelFailed = FALSE

\* no subgraph with symbolic shapes
NoSymbolic ==
    /\ symGraph = [nInputs |-> 0, inputShape |-> <<>>,
                   symbolic_shape_inputs |-> <<>>, outputShapes |-> <<>>]
    /\ symPc = "start"
    /\ shapeSymbolToVar_ = <<>>
    /\ shapeSymbolInputPos_ = <<>>
    /\ inputBufDims = <<>>
    /\ tensorOutputSymbolicSizes_ = <<>>
    /\ tensorOutputSizes_ = <<>>
    /\ tensorOutputStrides_ = <<>>
    /\ callers = {}
    /\ call = [t \in Threads |-> IdleCall]
    /\ nCalls = 0

\* no function applied yet
NoneApplied ==
    /\ fn = "none"
    /\ res = <<>>

\* every configuration of the process; a subgraph that binds and one that
\* does not
Init ==
    /\ NoSymbolic
    /\ NoneApplied
    /\ arg = <<>>
    /\ envFallback \in FallbackEnvValues
    /\ envDontUseLLVM \in DontUseLLVMEnvValues
    /\ TORCH_ENABLE_LLVM \in BOOLEAN
    /\ te_generate_block_code \in BOOLEAN
    /\ te_must_use_llvm_on_cpu \in BOOLEAN
    /\ pre_alloc_ = FALSE
    /\ \E ins \in {<<"TensorType">>, <<OtherKind>>}, device \in DeviceTypes :
           graph_ = Graph(ins, 0, <<1>>, <<>>, 0, device)
    /\ InitKernel

\* subgraphs that vary in their inputs and outputs, with one tensor constant
\* and one static intermediate buffer
GraphsByInputs ==
    {Graph(ins, nSym, outs, <<"TensorConstant">>, 1, "kCPU") :
        ins \in SeqsUpTo(BindableKinds, 1, MaxInputs),
        nSym \in 0..MaxSym,
        outs \in SeqsUpTo(OutputValues, 1, MaxOutputs)}

\* subgraphs that vary in their outputs, constants and intermediate buffers,
\* with a scalar, a tensor and a symbolic-shape input
GraphsByConstants ==
    {Graph(<<"FloatType", "TensorType", "IntType">>, 1, outs, nodes, interm,
           "kCPU") :
        outs \in SeqsUpTo(OutputValues, 1, MaxOutputs),
        nodes \in SeqsUpTo(NodeKinds, 0, MaxNodes),
        interm \in 0..MaxInterm}

\* the subgraphs above, on a CPU build with LLVM
InitBind ==
    /\ NoSymbolic
    /\ NoneApplied
    /\ arg = <<>>
    /\ envFallback = "unset"
    /\ envDontUseLLVM = "unset"
    /\ TORCH_ENABLE_LLVM = TRUE
    /\ te_generate_block_code = FALSE
    /\ te_must_use_llvm_on_cpu = TRUE
    /\ pre_alloc_ \in BOOLEAN
    /\ graph_ \in GraphsByInputs \cup GraphsByConstants
    /\ InitKernel

Next ==
    \/ \E value \in BOOLEAN : setFallbackAllowed(value)
    \/ \E extFail \in ExtFailures : Construct(extFail)
    \/ \E below \in 0..MaxBelow, callOk \in BOOLEAN, fbOk \in BOOLEAN :
           Run(below, callOk, fbOk)
    \/ \E createOk \in BOOLEAN : Recompile(createOk)

Spec == Init /\ [][Next]_vars

\* the life of one kernel while the configuration stays as it is
NextBind ==
    \/ \E extFail \in ExtFailures : Construct(extFail)
    \/ \E below \in 0..MaxBelow, callOk \in BOOLEAN, fbOk \in BOOLEAN :
           Run(below, callOk, fbOk)

SpecBind == InitBind /\ [][NextBind]_vars

\* a CPU build with LLVM and a kernel that is not looked at
FixedKernel ==
    /\ envFallback = "unset"
    /\ envDontUseLLVM = "unset"
    /\ TORCH_ENABLE_LLVM = TRUE
    /\ te_generate_block_code = FALSE
    /\ te_must_use_llvm_on_cpu = TRUE
    /\ pre_alloc_ = FALSE
    /\ graph_ = Graph(<<"TensorType">>, 0, <<1>>, <<>>, 0, "kCPU")
    /\ InitKernel

SymShapes == SeqsUpTo(ShapeSymbols, 1, MaxRank)

\* the lists of symbolic shape inputs handed to the constructor
SymLists == SeqsUpTo({s \in ShapeSymbols : s < 0}, 1, 2)

SymGraph(inShape, symIns, outShapes) ==
    [nInputs |-> 1 + Len(symIns), inputShape |-> inShape,
     symbolic_shape_inputs |-> symIns, outputShapes |-> outShapes]

\* subgraphs with one tensor input, the symbolic dims after it, and one
\* output of the input's shape or two outputs
SymGraphs ==
    {SymGraph(s, l, <<s>>) : s \in SymShapes, l \in SymLists}
    \cup {SymGraph(<<-1, 4>>, l, <<s, <<-1>> >>) :
              s \in SymShapes, l \in SymLists}

InitSym ==
    /\ FixedKernel
    /\ NoneApplied
    /\ arg = <<>>
    /\ symGraph \in SymGraphs
    /\ symPc = "start"
    /\ shapeSymbolToVar_ = <<>>
    /\ shapeSymbolInputPos_ = <<>>
    /\ inputBufDims = <<>>
    /\ tensorOutputSymbolicSizes_ = <<>>
    /\ tensorOutputSizes_ = <<>>
    /\ tensorOutputStrides_ = <<>>
    /\ callers \in {{1}, Threads}
    /\ call = [t \in Threads |-> IdleCall]
    /\ nCalls = 0

NextSym ==
    \/ \E ok \in BOOLEAN : CompileShapes(ok)
    \/ \E t \in Threads, ints \in SeqsUpTo(DimValues, 1, 2) : BeginCall(t, ints)
    \/ \E t \in Threads : ResolveOutput(t)
    \/ \E t \in Threads : AllocateOutput(t)

\* the life of a kernel with symbolic shapes and the threads that call it
SpecSym == InitSym /\ [][NextSym]_vars

\* declared strides of an output of these sizes: the dense layouts, and
\* layouts that are one stride off a dense one
StrideCandidates(sizes) ==
    LET dense == {stridesInOrder(sizes, p) : p \in Orders(Len(sizes))}
    IN  dense \cup UNION {{[d EXCEPT ![k] = @ + 1] : k \in 1..Len(sizes)} :
                             d \in dense}

\* the declared sizes and strides of an output
DeclaredOutputs ==
    UNION {{[sizes |-> Known(s), strides |-> Known(t)] :
               t \in StrideCandidates(s)} : s \in SeqsUpTo(SizeValues, 0, MaxDims)}
    \cup {[sizes |-> Known(s), strides |-> Unknown] :
              s \in SeqsUpTo(SizeValues, 0, MaxDims)}
    \cup {[sizes |-> Unknown, strides |-> Unknown],
          [sizes |-> Unknown, strides |-> Known(<<1>>)]}

InitRestride ==
    /\ FixedKernel
    /\ NoSymbolic
    /\ NoneApplied
    /\ arg \in DeclaredOutputs

NextRestride ==
    \E order \in UNION {Orders(n) : n \in 0..MaxDims} : ConvertOutput(order)

\* compile() meeting one output of a subgraph without symbolic shapes
SpecRestride == InitRestride /\ [][NextRestride]_vars

\* the bounds of a loop: constants, or up to a variable n
LoopBounds ==
    {<<LongImm(0), LongImm(2)>>, <<LongImm(0), LongImm(3)>>,
     <<LongImm(1), LongImm(3)>>, <<LongImm(0), VarHandle("n", 0)>>}

Stores == {Store("a"), Store("b")}

\* loops over at most one store
InnerLoops ==
    {For(b[1], b[2], body) : b \in LoopBounds, body \in SeqsUpTo(Stores, 0, 1)}

\* loops over a store or over one loop that stores to a
OuterLoops ==
    {For(b[1], b[2], <<Store("a")>>) : b \in LoopBounds}
    \cup {For(b[1], b[2], <<For(c[1], c[2], <<Store("a")>>)>>) :
             b \in LoopBounds, c \in LoopBounds}

\* the root blocks fuseAllLoops is called on: loops and stores side by side,
\* and loops over loops side by side
RootBlocks ==
    SeqsUpTo(InnerLoops \cup Stores, 0, MaxStmts)
    \cup SeqsUpTo(OuterLoops, 1, MaxStmts)

\* the level at which LoopNest::fuseLoops returns false; 0 for never
FailLevels == {0, 1, 2}

FuseInputs ==
    {[pass |-> "fuseAllLoops", root |-> r, failAt |-> f] :
        r \in RootBlocks, f \in FailLevels}

\* the trip counts of the loops of a nest: constants, or a variable
TripCounts ==
    {LongImm(0), LongImm(2), LongImm(16), LongImm(64), LongImm(1024),
     LongImm(8192), LongImm(32768), VarHandle("n", 0)}

\* the values of at::get_num_threads()
ThreadCounts == {1, 2, 8, 64}

\* a nest for each choice of trip counts, loop i with the id i
Nests ==
    {[i \in 1..Len(tcs) |->
         [For(LongImm(0), tcs[i], <<>>) EXCEPT !.buf = ToString(i)]] :
        tcs \in SeqsUpTo(TripCounts, 1, MaxNest)}

ParallelizeInputs ==
    {[pass |-> "parallelizeOuterLoops", nest |-> n, threads |-> t,
      hasReduction |-> r, hasLoopCarriedDependence |-> d, flattenOk |-> f] :
        n \in Nests, t \in ThreadCounts, r \in BOOLEAN, d \in BOOLEAN,
        f \in BOOLEAN}

\* the values of te_cuda_pointwise_loop_levels, _block_count and _block_size
LoopLevelValues == {-1, 0, 1, 2, 3, 4}
BlockCountValues == {-1, 0, 8}
BlockSizeValues == {-1, 0, 128}

\* the numbers of loops around the output buffers; none for a 0-dim buffer
CudaInputs ==
    {[pass |-> "transformLoopsCuda", outputs |-> o, loopLevels |-> l,
      blockCount |-> c, blockSize |-> s] :
        o \in SeqsUpTo({0, 1, 2}, 1, MaxOutputs), l \in LoopLevelValues,
        c \in BlockCountValues, s \in BlockSizeValues}

\* the settings every backend reads
CommonSettings ==
    [hasReduction : BOOLEAN, optConditionals : BOOLEAN, pre_alloc : BOOLEAN]

TransformInput(backendType, outputs, c, threads, levels, count, size, dtypes) ==
    [pass |-> "transformLoops", backendType |-> backendType,
     outputs |-> outputs, hasReduction |-> c.hasReduction,
     optConditionals |-> c.optConditionals, pre_alloc |-> c.pre_alloc,
     threads |-> threads, loopLevels |-> levels, blockCount |-> count,
     blockSize |-> size, dtypes |-> dtypes]

\* a call of transformLoops for each backend, with the settings it reads
TransformInputs ==
    LET Outs == SeqsUpTo({0, 1, 2}, 1, MaxOutputs)
    IN  {TransformInput("kLLVMCodeGen", o, c, t, -1, -1, -1, <<>>) :
             o \in Outs, c \in CommonSettings, t \in {1, 8}}
        \cup {TransformInput("kSimpleIREval", o, c, 1, -1, -1, -1, <<>>) :
                  o \in Outs, c \in CommonSettings}
        \cup {TransformInput("kCudaCodeGen", o, c, 1, l, -1, s, <<>>) :
                  o \in Outs, c \in CommonSettings, l \in LoopLevelValues,
                  s \in BlockSizeValues}
        \cup UNION {{TransformInput("kBlockCodeGen", o, c, 1, -1, -1, -1, d) :
                         d \in [1..Len(o) -> {"Half", "Byte"}],
                         c \in CommonSettings} : o \in Outs}

InitLoops ==
    /\ FixedKernel
    /\ NoSymbolic
    /\ NoneApplied
    /\ arg \in FuseInputs \cup ParallelizeInputs \cup CudaInputs
                \cup TransformInputs

NextLoops ==
    \/ FuseAllLoops
    \/ ParallelizeOuterLoops
    \/ TransformLoopsCuda
    \/ TransformLoops

\* transformLoops() applying one of its passes
SpecLoops == InitLoops /\ [][NextLoops]_vars

\* the debug names of graph inputs: a letter, then dots and underscores
DebugNames ==
    {<<"a">> \o s : s \in SeqsUpTo({".", "_"}, 0, MaxSuffix)}

\* the debug names of the inputs of a graph, which are pairwise distinct
NameInputs ==
    {[pass |-> "genInputDebugNames", debugNames |-> ns] :
        ns \in {s \in SeqsUpTo(DebugNames, 1, MaxInputs) :
                   \A i, j \in 1..Len(s) : i # j => s[i] # s[j]}}

InitNames ==
    /\ FixedKernel
    /\ NoSymbolic
    /\ NoneApplied
    /\ arg \in NameInputs

NextNames == GenInputDebugNames

\* compile() naming the inputs of a graph
SpecNames == InitNames /\ [][NextNames]_vars

\* ------------------------------------------------------------------ claims
\* C1: run() dispatches on use_fallback_ and allow_fallback_: not in fallback
\* mode and fallback not allowed, it calls only the compiled kernel and
\* throws exactly when that throws; not in fallback mode and fallback
\* allowed, it calls the compiled kernel first and the fallback interpreter
\* exactly when the kernel threw; in fallback mode it calls only the
\* fallback interpreter.
C1_RunDispatch ==
    calls # <<>> =>
        /\ (~use_fallback_ /\ ~allow_fallback_) =>
               (calls = <<"runKernel">> /\ runThrew = kernelThrew)
        /\ (~use_fallback_ /\ allow_fallback_) =>
               /\ calls[1] = "runKernel"
               /\ kernelThrew => calls = <<"runKernel", "fallback">>
               /\ ~kernelThrew => (calls = <<"runKernel">> /\ ~runThrew)
        /\ use_fallback_ =>
               (calls = <<"fallback">> /\ ~kernelThrew)

\* C1 witness: a run with fallback allowed whose compiled kernel failed and
\* whose fallback interpreter then ran
C1_Witness ==
    /\ allow_fallback_ /\ ~use_fallback_
    /\ kernelThrew
    /\ calls = <<"runKernel", "fallback">>
    /\ ~runThrew

\* C2 (as claimed): with fallback allowed the constructor skips compile()
\* exactly when the environment variable is "2" and block code generation is
\* off; with the variable unset it compiles.
C2_SkipOnlyOnEnv2 ==
    (pc # "start" /\ allow_fallback_) =>
        ((compileResult = "notCalled") <=>
             (envFallback = "2" /\ ~te_generate_block_code))

\* C3: with fallback not allowed the constructor always calls compile(), it
\* throws exactly when compile() threw, and the kernel is never in fallback
\* mode.
C3_NoFallbackCompiles ==
    (pc # "start" /\ ~allow_fallback_) =>
        /\ compileResult # "notCalled"
        /\ (pc = "ctorThrew") <=> (compileResult = "threw")
        /\ ~use_fallback_

\* C3 witness: a compile error that left the constructor
C3_Witness ==
    /\ pc = "ctorThrew"
    /\ ~allow_fallback_
    /\ compileResult = "threw"

\* C4: a constructor that finds fallback allowed and not enforced calls
\* compile() and returns normally, in fallback mode if compile() threw; a
\* kernel whose compile() threw under allowed fallback runs only the
\* fallback interpreter.
C4_CompileErrorFallsBack ==
    [][ /\ (pc = "start" /\ pc' # "start" /\ fallbackAllowed
               /\ ~fallbackEnforced) =>
               /\ compileResult' # "notCalled"
               /\ pc' = "constructed"
               /\ (compileResult' = "threw") => use_fallback_'
        /\ (allow_fallback_' /\ compileResult' = "threw") =>
               /\ pc' = "constructed"
               /\ use_fallback_'
               /\ calls' # <<>> => (calls' = <<"fallback">> /\ ~kernelThrew')
      ]_vars

\* C4 witness: a kernel whose compile() threw under allowed fallback has run
C4_Witness ==
    /\ pc = "constructed"
    /\ allow_fallback_
    /\ compileResult = "threw"
    /\ calls = <<"fallback">>

\* C5: with fallback allowed, a failure of the compiled kernel makes that
\* run call the fallback interpreter and leaves the kernel out of fallback
\* mode; a run after such a failure calls the compiled kernel first.
C5_FallbackForThatCallOnly ==
    /\ (allow_fallback_ /\ kernelThrew) =>
           (calls = <<"runKernel", "fallback">> /\ ~use_fallback_)
    /\ (allow_fallback_ /\ prevKernelFailed) =>
           (~use_fallback_ /\ calls[1] = "runKernel")

\* C5 witness: after a run whose compiled kernel failed, a run whose
\* compiled kernel succeeded
C5_Witness ==
    /\ allow_fallback_
    /\ prevKernelFailed
    /\ ~kernelThrew
    /\ calls = <<"runKernel">>

\* C6: the backend compile() selects is CUDA on a GPU; Block on a CPU with
\* the block-codegen flag; otherwise on a CPU LLVM when LLVM is built in and
\* not disabled, else the error "LLVM Backend not found" when
\* must-use-LLVM-on-CPU is set, else the simple IR interpreter; any other
\* device is the error "Invalid device type".
C6_BackendSelection ==
    backendResult.what # "notReached" =>
        LET device == graph_.device
            llvmUsable == TORCH_ENABLE_LLVM /\ envDontUseLLVM # "1"
        IN  CASE device = "kCUDA" ->
                     backendResult = BackendOk("kCudaCodeGen")
              [] device = "kCPU" /\ te_generate_block_code ->
                     backendResult = BackendOk("kBlockCodeGen")
              [] device = "kCPU" /\ ~te_generate_block_code /\ llvmUsable ->
                     backendResult = BackendOk("kLLVMCodeGen")
              [] device = "kCPU" /\ ~te_generate_block_code /\ ~llvmUsable
                     /\ te_must_use_llvm_on_cpu ->
                     backendResult = BackendError("LLVM Backend not found")
              [] device = "kCPU" /\ ~te_generate_block_code /\ ~llvmUsable
                     /\ ~te_must_use_llvm_on_cpu ->
                     backendResult = BackendOk("kSimpleIREval")
              [] OTHER ->
                     backendResult = BackendError("Invalid device type")

\* C6 witness: backend selection on a GPU while the block-codegen flag is set
C6_Witness ==
    /\ graph_.device = "kCUDA"
    /\ te_generate_block_code
    /\ backendResult.backendType = "kCudaCodeGen"

\* C7 (as claimed): with DONT_USE_LLVM=1, backend selection for a CPU device
\* with the block-codegen flag off gives the simple IR interpreter.
C7_DontUseLLVMGivesInterpreter ==
    (/\ backendResult.what # "notReached"
     /\ envDontUseLLVM = "1"
     /\ graph_.device = "kCPU"
     /\ ~te_generate_block_code) =>
        backendResult = BackendOk("kSimpleIREval")

\* C7 (amended): with DONT_USE_LLVM=1, backend selection for a CPU device
\* with the block-codegen flag off gives the simple IR interpreter when
\* must-use-LLVM-on-CPU is off, and fails with "LLVM Backend not found" when
\* it is on.
C7_DontUseLLVMUnlessMustUse ==
    (/\ backendResult.what # "notReached"
     /\ envDontUseLLVM = "1"
     /\ graph_.device = "kCPU"
     /\ ~te_generate_block_code) =>
        IF te_must_use_llvm_on_cpu
        THEN backendResult = BackendError("LLVM Backend not found")
        ELSE backendResult = BackendOk("kSimpleIREval")

\* C7 witness: LLVM is built in, DONT_USE_LLVM=1, and the interpreter is
\* selected
C7_Witness ==
    /\ TORCH_ENABLE_LLVM
    /\ envDontUseLLVM = "1"
    /\ graph_.device = "kCPU"
    /\ ~te_generate_block_code
    /\ backendResult = BackendOk("kSimpleIREval")

\* the graph inputs that are not symbolic-shape inputs
PlainInputs == 1..(Len(graph_.inputs) - graph_.nSym)
\* 1..n as a sequence
Indices(n) == [i \in 1..n |-> i]
\* the node constants of the graph and the preallocated intermediates
NumNodeConstants ==
    Cardinality({i \in 1..Len(graph_.nodes) : graph_.nodes[i] # "ScalarConstant"})
NumPreAllocated == IF pre_alloc_ THEN graph_.interm ELSE 0

\* outputs in graph order, then constants: node constants in definition
\* order, then preallocated intermediates; as a property of the part of
\* bufferArgs_ after the first `off` arguments
OutputsThenConstants(off) ==
    LET nOut == Len(graph_.outputs)
        nC == NumNodeConstants + NumPreAllocated
        isInterm(k) == bufferArgs_[k].src = "intermediate"
    IN  /\ Len(bufferArgs_) = off + nOut + nC
        /\ \A j \in 1..nOut :
               bufferArgs_[off + j] = BufArg("output", graph_.outputs[j])
        /\ \A k \in (off + nOut + 1)..Len(bufferArgs_) :
               /\ ~bufferArgs_[k].isVar
               /\ bufferArgs_[k].src \in NodeKinds \cup {"intermediate"}
               /\ isInterm(k) <=> (k > off + nOut + NumNodeConstants)
               /\ ~isInterm(k) =>
                      graph_.nodes[bufferArgs_[k].idx] = bufferArgs_[k].src
        /\ \A k, m \in (off + nOut + 1)..Len(bufferArgs_) :
               (k < m /\ isInterm(k) = isInterm(m)) =>
                   bufferArgs_[k].idx < bufferArgs_[m].idx

\* C8 (as claimed): after a successful compile() bufferArgs_ is all tensor
\* inputs in graph order, then all scalar inputs in graph order, then the
\* symbolic-shape inputs, then the outputs, then the constants.
C8_TensorsThenScalars ==
    compileResult = "ok" =>
        LET tens == SelectSeq(Indices(Len(graph_.inputs) - graph_.nSym),
                        LAMBDA i : graph_.inputs[i] = "TensorType")
            scal == SelectSeq(Indices(Len(graph_.inputs) - graph_.nSym),
                        LAMBDA i : graph_.inputs[i] # "TensorType")
            nPlain == Len(tens) + Len(scal)
        IN  /\ Len(bufferArgs_) >= Len(graph_.inputs)
            /\ \A k \in 1..Len(tens) :
                   /\ ~bufferArgs_[k].isVar
                   /\ bufferArgs_[k].src = "input"
                   /\ bufferArgs_[k].idx = tens[k]
            /\ \A k \in 1..Len(scal) :
                   /\ bufferArgs_[Len(tens) + k].isVar
                   /\ bufferArgs_[Len(tens) + k].idx = scal[k]
            /\ \A k \in 1..graph_.nSym :
                   /\ bufferArgs_[nPlain + k].isVar
                   /\ bufferArgs_[nPlain + k].idx = nPlain + k
            /\ OutputsThenConstants(Len(graph_.inputs))

\* C8 (amended): after a successful compile() bufferArgs_ is the inputs that
\* are not symbolic-shape inputs, tensors and scalars alike, in graph order,
\* then the symbolic-shape inputs, then the outputs in graph order, then
\* the constants in the order of constants_.
C8_InputsInGraphOrder ==
    compileResult = "ok" =>
        /\ Len(bufferArgs_) >= Len(graph_.inputs)
        /\ \A i \in 1..Len(graph_.inputs) :
               /\ bufferArgs_[i].src = "input"
               /\ bufferArgs_[i].idx = i
               /\ bufferArgs_[i].isVar <=> (graph_.inputs[i] # "TensorType")
        /\ \A i \in (Len(graph_.inputs) - graph_.nSym + 1)..Len(graph_.inputs) :
               bufferArgs_[i] = VarArg("kLong", i)
        /\ OutputsThenConstants(Len(graph_.inputs))

\* C8 witness: a compiled graph with a scalar input before a tensor input, a
\* symbolic-shape input, two outputs, two node constants and a preallocated
\* intermediate
C8_Witness ==
    /\ compileResult = "ok"
    /\ \E i, j \in PlainInputs :
           i < j /\ graph_.inputs[i] # "TensorType"
                 /\ graph_.inputs[j] = "TensorType"
    /\ graph_.nSym = 1
    /\ graph_.outputs = <<2, 1>>
    /\ NumNodeConstants = 2
    /\ NumPreAllocated = 1

\* C9 (as claimed): the call arguments runKernel builds are one per graph
\* input in input order, an immediate for a scalar and a pointer for a
\* tensor, then one pointer per output and per constant: the same length
\* and the same kind at every position as bufferArgs_.
C9_RunArgsMatchBufferArgs ==
    (calls # <<>> /\ calls[1] = "runKernel") =>
        /\ Len(runArgs) = Len(bufferArgs_)
        /\ \A k \in 1..Len(runArgs) :
               runArgs[k].isImm = bufferArgs_[k].isVar
        /\ \A i \in 1..Len(graph_.inputs) :
               /\ runArgs[i].src = "input"
               /\ runArgs[i].idx = i

ownOutput(inputs, i) ==
    LET sizes == resolveSizes(tensorOutputSymbolicSizes_[i],
                              shapeSymbolInputPos_, inputs).sizes
    IN  [sizes |-> sizes, strides |-> contiguousStridesOf(sizes)]

\* C11: run() and runKernel() do not modify the member state compile()
\* created, so the output sizes and strides members stay as compile() left
\* them, and every call that completes, also one that ran concurrently with
\* another call with different symbolic dims, has allocated each output with
\* the sizes of its own inputs.
C11_RunLeavesMembersAlone ==
    symPc = "compiled" =>
        /\ tensorOutputSizes_ = compileShapes(symGraph).tensorOutputSizes
        /\ tensorOutputStrides_ = compileShapes(symGraph).tensorOutputStrides
        /\ \A t \in callers :
               call[t].pc = "done" =>
                   \A i \in 1..Len(call[t].outputs) :
                       call[t].outputs[i] = ownOutput(call[t].inputs, i)

\* the shape variables in a list of dimension expressions
shapeVars(dims) == {dims[d] : d \in {k \in 1..Len(dims) : dims[k].node = "Var"}}

\* C12: after a successful compile(), every dynamic shape variable that
\* occurs in a dimension of the input buffer or in an output's symbolic
\* sizes has an entry in shapeSymbolInputPos_, and no call fails because it
\* looked up a variable without a recorded position.
C12_EveryShapeVarHasInputPos ==
    symPc = "compiled" =>
        /\ shapeVars(inputBufDims) \subseteq DOMAIN shapeSymbolInputPos_
        /\ \A i \in 1..Len(tensorOutputSymbolicSizes_) :
               shapeVars(tensorOutputSymbolicSizes_[i])
                   \subseteq DOMAIN shapeSymbolInputPos_
        /\ \A t \in callers : call[t].pc # "threw"

\* C13: in a kernel with symbolic shapes that one thread calls, every call
\* that completes has allocated each output with, per dimension, the static
\* size of the output's shape or, for a dynamic dimension, the integer this
\* call passed at the input position recorded for the dimension's variable,
\* and with the default contiguous strides of those sizes, whatever earlier
\* calls passed; the calls leave what compile() recorded as it was.
C13_SizesFromThisCall ==
    (symPc = "compiled" /\ callers = {1}) =>
        /\ tensorOutputSymbolicSizes_ =
               compileShapes(symGraph).tensorOutputSymbolicSizes
        /\ shapeSymbolInputPos_ = compileShapes(symGraph).shapeSymbolInputPos
        /\ call[1].pc = "done" =>
               /\ Len(call[1].outputs) = Len(symGraph.outputShapes)
               /\ \A i \in 1..Len(call[1].outputs) :
                      LET shape == symGraph.outputShapes[i]
                          o == call[1].outputs[i]
                      IN  /\ Len(o.sizes) = Len(shape)
                          /\ \A d \in 1..Len(shape) :
                                 o.sizes[d] =
                                     IF shape[d] >= 0 THEN shape[d]
                                     ELSE call[1].inputs[shapeSymbolInputPos_[
                                              shapeSymbolToVar_[shape[d]]]
                                              + 1].int
                          /\ o.strides = contiguousStridesOf(o.sizes)

\* a second call has completed with other symbolic dims than the call
\* before it, for an output with a dynamic and a static dimension
C13_Witness ==
    /\ symPc = "compiled"
    /\ callers = {1}
    /\ call[1].pc = "done"
    /\ call[1].prevInputs # <<>>
    /\ call[1].prevInputs # call[1].inputs
    /\ symGraph.outputShapes[1] = <<-1, 4>>
    /\ call[1].outputs[1].sizes # ownOutput(call[1].prevInputs, 1).sizes

\* C14: when a restride compute is synthesized for an output, the index it
\* loads for every logical index is within the sizes, and its position under
\* the declared strides is the position of the logical index under the
\* default contiguous strides; so the element read through the declared
\* strides at a logical index is the element of the contiguous buffer at
\* that index.
C14_RestrideIndexMap ==
    (fn = "convertOutputToCorrectStrides" /\ res.stmt) =>
        LET sizes == arg.sizes.value
            strides == arg.strides.value
            default_strides == contiguousStridesOf(sizes)
        IN  /\ DOMAIN res.load = AllAxes(sizes)
            /\ \A axes \in AllAxes(sizes) :
                   LET new_axes == res.load[axes]
                   IN  /\ \A i \in 1..Len(sizes) :
                              new_axes[i] >= 0 /\ new_axes[i] < sizes[i]
                       /\ dot(new_axes, strides) = dot(axes, default_strides)
            /\ \A j \in AllAxes(sizes) :
                   \E axes \in AllAxes(sizes) :
                       /\ dot(axes, default_strides) = dot(j, strides)
                       /\ res.load[axes] = j

\* a restride compute for three dimensions, one of them of size 1, that
\* moves an element
C14_Witness ==
    /\ fn = "convertOutputToCorrectStrides"
    /\ res.stmt
    /\ Len(arg.sizes.value) = 3
    /\ \E i \in 1..3 : arg.sizes.value[i] = 1
    /\ \E axes \in DOMAIN res.load : res.load[axes] # axes

\* C15: for an output of a subgraph without symbolic shapes whose conversion
\* returns, a restride compute is synthesized exactly when the declared
\* strides are known, differ from the default contiguous strides and are
\* dense and non-overlapping; otherwise the output buffer is used as it is
\* and no statement is added; and the strides recorded for the allocation at
\* run time differ from the default ones exactly when a restride compute was
\* synthesized.
C15_RestrideExactlyWhenNeeded ==
    (fn = "convertOutputToCorrectStrides" /\ ~res.threw) =>
        LET sizes == arg.sizes.value
            default_strides == contiguousStridesOf(sizes)
            needed == /\ arg.strides.known
                      /\ arg.strides.value # default_strides
                      /\ denseAndNonOverlapping(sizes, arg.strides.value)
        IN  /\ res.stmt <=> needed
            /\ ~needed => (res.buf = "buf" /\ res.load = <<>>)
            /\ needed => res.buf = "output_1"
            /\ (res.tensorOutputStrides # default_strides) <=> res.stmt
            /\ res.stmt => res.tensorOutputStrides = arg.strides.value

\* a two-dimensional output declared with the strides of its transpose
C15_Witness ==
    /\ fn = "convertOutputToCorrectStrides"
    /\ arg.sizes = Known(<<2, 3>>)
    /\ arg.strides = Known(<<1, 2>>)
    /\ res.stmt
    /\ res.tensorOutputStrides = <<1, 2>>

\* every child of the block is a loop, and the loops have constant bounds
\* that are pairwise equal
EqualConstantLoops(block) ==
    /\ block # <<>>
    /\ \A i \in 1..Len(block) :
           /\ block[i].kind = "For"
           /\ block[i].start.node = "LongImm"
           /\ block[i].stop.node = "LongImm"
    /\ \A i, j \in 1..Len(block) :
           /\ block[i].start = block[j].start
           /\ block[i].stop = block[j].stop

\* out is what fusion may make of the block in: either the block as it was,
\* and then its children are not loops of equal constant bounds unless
\* LoopNest::fuseLoops refused them, or one loop made of the children of in,
\* which are loops of equal constant bounds, over what fusion may make of
\* their bodies put one after the other
RECURSIVE FusedAsClaimed(_, _, _, _)
FusedAsClaimed(out, in, failAt, level) ==
    \/ /\ out = in
       /\ EqualConstantLoops(in) => failAt = level
    \/ /\ EqualConstantLoops(in)
       /\ Len(out) = 1
       /\ out[1].kind = "For"
       /\ out[1].start = in[1].start
       /\ out[1].stop = in[1].stop
       /\ out[1].fusedFrom = [i \in 1..Len(in) |-> <<in[i].start, in[i].stop>>]
       /\ FusedAsClaimed(out[1].body, concatBodies(in), failAt, level + 1)

\* the loops of a block and of the blocks below it
RECURSIVE loopsOf(_)
loopsOf(block) ==
    UNION {IF block[i].kind = "For"
           THEN {block[i]} \cup loopsOf(block[i].body) ELSE {} :
           i \in 1..Len(block)}

\* C16: fuseAllLoops fuses the children of a block only when every child is
\* a loop and all have constant, pairwise equal (start, stop), and goes on
\* in the body of the fused loop; at the first level with a child that is
\* not a loop, with a bound that is not constant or with unequal bounds it
\* stops and leaves that level and all below it as they were; so the loops
\* of every fusion group have the same constant bounds.
C16_FusesOnlyEqualConstantLoops ==
    fn = "fuseAllLoops" =>
        /\ FusedAsClaimed(res.root, arg.root, arg.failAt, 1)
        /\ \A loop \in loopsOf(res.root) :
               \A i, j \in 1..Len(loop.fusedFrom) :
                   /\ loop.fusedFrom[i] = loop.fusedFrom[j]
                   /\ loop.fusedFrom[i][1].node = "LongImm"
                   /\ loop.fusedFrom[i][2].node = "LongImm"

\* two loops were fused, then the two loops in their bodies, whose bodies
\* are stores
C16_Witness ==
    /\ fn = "fuseAllLoops"
    /\ Len(arg.root) = 2
    /\ Len(res.root) = 1
    /\ Len(res.root[1].fusedFrom) = 2
    /\ Len(res.root[1].body) = 1
    /\ Len(res.root[1].body[1].fusedFrom) = 2
    /\ res.root[1].body[1].body = <<Store("a"), Store("a")>>

\* the product of the trip counts of loops with constant trip counts, exact
\* below minGrainSize
RECURSIVE tripProduct(_)
tripProduct(loops) ==
    IF loops = <<>> THEN 1
    ELSE times(tripProduct(Tail(loops)), tripCount(Head(loops)).value)

ConstantTripCounts(loops) ==
    \A i \in 1..Len(loops) : tripCount(loops[i]).constant

\* C17 as stated: a loop marked parallel is a single loop of the nest or the
\* flattening of several, the loops it was formed from have constant trip
\* counts, and the product of these is at least the grain size 32768 and at
\* least the thread count.
C17_ParallelLoopsFillGrainAndThreads ==
    (fn = "parallelizeOuterLoops" /\ res.parallel # <<>>) =>
        /\ res.flattened <=> Len(res.parallel) > 1
        /\ ConstantTripCounts(res.parallel)
        /\ tripProduct(res.parallel) >= minGrainSize
        /\ tripProduct(res.parallel) >= arg.threads

\* C17, amended: a loop marked parallel is a single loop of the nest or the
\* flattening of several; the loops it was formed from are the outermost
\* loops of the nest and have constant trip counts; when every loop of the
\* nest has a constant positive trip count, the product of the trip counts
\* of the innermost of them and of all loops inside it is at least the grain
\* size 32768; and the product of the trip counts of all of them but the
\* innermost is below the thread count.
C17_ParallelLoopsAreOuterConstantLoops ==
    (fn = "parallelizeOuterLoops" /\ res.parallel # <<>>) =>
        LET k == Len(res.parallel)
            n == Len(arg.nest)
        IN  /\ res.flattened <=> k > 1
            /\ res.parallel = SubSeq(arg.nest, 1, k)
            /\ ConstantTripCounts(res.parallel)
            /\ (/\ ConstantTripCounts(arg.nest)
                /\ \A i \in 1..n : tripCount(arg.nest[i]).value > 0)
                   => tripProduct(SubSeq(arg.nest, k, n)) >= minGrainSize
            /\ tripProduct(SubSeq(res.parallel, 1, k - 1)) < arg.threads

\* the two outer loops of a nest were flattened and marked parallel, and
\* the product of their trip counts is below the grain size and below the
\* thread count
C17_Witness ==
    /\ fn = "parallelizeOuterLoops"
    /\ res.flattened
    /\ Len(res.parallel) = 2
    /\ Len(arg.nest) = 3
    /\ ConstantTripCounts(arg.nest)
    /\ tripProduct(res.parallel) < arg.threads
    /\ tripProduct(res.parallel) < minGrainSize

\* a nest of three loops with the trip counts 2, 16 and 1024, outermost
\* first, without a reduction or a loop-carried dependence
SmallNest ==
    /\ fn = "parallelizeOuterLoops"
    /\ [i \in 1..Len(arg.nest) |-> arg.nest[i].stop]
           = <<LongImm(2), LongImm(16), LongImm(1024)>>
    /\ ~arg.hasReduction
    /\ ~arg.hasLoopCarriedDependence

\* C18 as stated: for the nest of trip counts 2, 16 and 1024,
\* pruneByGrainSize removes all three loops and parallelizeOuterLoops marks
\* no loop parallel.
C18_SmallNestLosesAllLoops ==
    SmallNest => (res.afterGrain = <<>> /\ res.parallel = <<>>)

\* C18, amended: for the nest of trip counts 2, 16 and 1024,
\* pruneByGrainSize removes the two inner loops and keeps the outermost one,
\* and parallelizeOuterLoops marks the outermost loop parallel, without
\* flattening, when the thread count is above 1 and marks no loop when the
\* thread count is 1.
C18_SmallNestKeepsOutermostLoop ==
    SmallNest =>
        /\ res.afterGrain = <<arg.nest[1]>>
        /\ arg.threads > 1 => (res.parallel = <<arg.nest[1]>> /\ ~res.flattened)
        /\ arg.threads = 1 => res.parallel = <<>>

\* the nest of trip counts 2, 16 and 1024 with its outermost loop marked
C18_Witness ==
    /\ SmallNest
    /\ arg.threads = 8
    /\ res.parallel = <<arg.nest[1]>>

\* C19: parallelizeOuterLoops marks no loop parallel and flattens none when
\* the nest at the outermost loop that survived the pruning contains a
\* reduction or has a loop-carried dependence.
C19_NoParallelWithReductionOrDependence ==
    (/\ fn = "parallelizeOuterLoops"
     /\ arg.hasReduction \/ arg.hasLoopCarriedDependence) =>
        (res.parallel = <<>> /\ ~res.flattened)

\* two loops survived the pruning and could be flattened, and the nest has
\* a loop-carried dependence and no reduction
C19_Witness ==
    /\ fn = "parallelizeOuterLoops"
    /\ arg.hasLoopCarriedDependence
    /\ ~arg.hasReduction
    /\ arg.flattenOk
    /\ Len(res.candidates) = 2
    /\ res.parallel = <<>>

\* the configured loop level after defaulting
effectiveLoopLevels == IF arg.loopLevels > 0 THEN arg.loopLevels ELSE 2

\* C20 as stated: on the CUDA backend a configured pointwise loop level that
\* after defaulting is neither 2 nor 3 makes the loop transformation fail
\* with an 'Invalid loop-level' error for every graph.
C20_InvalidLoopLevelAlwaysFails ==
    (fn = "transformLoopsCuda" /\ effectiveLoopLevels \notin {2, 3}) =>
        (res.threw /\ res.what = <<"Invalid loop-level", effectiveLoopLevels>>)

\* C20, amended: on the CUDA backend a configured pointwise loop level that
\* after defaulting is neither 2 nor 3 makes the loop transformation fail
\* with an 'Invalid loop-level' error exactly for the graphs that have an
\* output buffer with a loop around it; a graph whose output buffers are all
\* 0-dim is transformed without the error, as is any graph when the level
\* after defaulting is 2 or 3.
C20_InvalidLoopLevelFailsWithLoops ==
    fn = "transformLoopsCuda" =>
        /\ effectiveLoopLevels \notin {2, 3} =>
               /\ res.threw <=> \E i \in 1..Len(arg.outputs) : arg.outputs[i] > 0
               /\ res.threw =>
                      res.what = <<"Invalid loop-level", effectiveLoopLevels>>
        /\ effectiveLoopLevels \in {2, 3} => ~res.threw

\* loop level 4, a 0-dim output and then an output with two loops: the
\* transformation failed
C20_Witness ==
    /\ fn = "transformLoopsCuda"
    /\ arg.loopLevels = 4
    /\ arg.outputs = <<0, 2>>
    /\ res.threw

\* the split factors of the mapped output buffers
splitFactors(mapping) ==
    UNION {{mapping[i].splits[j] : j \in 1..Len(mapping[i].splits)} :
               i \in 1..Len(mapping)}

\* C21 as stated: on the CUDA backend a configured block size <= 0 is
\* replaced by 512 in the 2-level mapping and by 256 in the 3-level mapping,
\* and a block count <= 0 by 1280 in the 3-level mapping, so every split
\* factor passed to splitWithMask is strictly positive.
C21_SplitFactorsPositive ==
    (fn = "transformLoopsCuda" /\ ~res.threw) =>
        LET size2 == IF arg.blockSize <= 0 THEN 512 ELSE arg.blockSize
            size3 == IF arg.blockSize <= 0 THEN 256 ELSE arg.blockSize
            count3 == IF arg.blockCount <= 0 THEN 1280 ELSE arg.blockCount
        IN  /\ \A i \in 1..Len(res.mapping) :
                   /\ res.mapping[i].loopLevels = 2 =>
                          res.mapping[i].splits = <<size2>>
                   /\ res.mapping[i].loopLevels = 3 =>
                          res.mapping[i].splits = <<count3 * size3, size3>>
            /\ \A f \in splitFactors(res.mapping) : f > 0

\* every output buffer of the call is 0-dim
AllZeroDim == \A i \in 1..Len(arg.outputs) : arg.outputs[i] = 0

\* C22 as stated: for output buffers that are zero-dimensional (no loops
\* around them) the loop transformation completes without error on every
\* backend (LLVM, CUDA, Block, interpreter) and compile() goes on to create
\* the codegen.
C22_ZeroDimOutputCompiles ==
    (fn = "transformLoops" /\ AllZeroDim) =>
        (~res.threw /\ res.codegen = getCodeGenName(arg.backendType))

\* the passes of the backend-specific step: fusion, parallelization and the
\* flattening and splitting of the GPU and Block mappings
BackendPasses ==
    {"fuseAllLoops", "parallelizeOuterLoops", "flatten", "splitWithMask"}

\* the other passes the order is stated for
StatedPasses ==
    {"simplify", "inlineIntermediateBufs", "optimizeConditionals",
     "prepareForCodegen", "vectorizeInnerLoops", "IRSimplifier::simplify"}

only(passes, S) == SelectSeq(passes, LAMBDA p : p \in S)
positions(passes, S) == {i \in 1..Len(passes) : passes[i] \in S}

\* C23: transformLoops runs its passes in one fixed order for every backend:
\* simplify, inline intermediate buffers, optimize conditionals (only if
\* enabled), the backend-specific step (on LLVM horizontal fusion, then
\* outer-loop parallelization), prepare for codegen, simplify, vectorize inner
\* loops (only on LLVM and only without a reduction), final arithmetic
\* simplification; conditional optimization comes after inlining and before
\* any loop fusion or splitting.  A call that throws in the backend-specific
\* step has run the passes before it, in that order.
C23_PassOrder ==
    fn = "transformLoops" =>
        LET before == <<"simplify", "inlineIntermediateBufs">>
                      \o (IF arg.optConditionals
                          THEN <<"optimizeConditionals">> ELSE <<>>)
            after == <<"prepareForCodegen", "simplify">>
                     \o (IF arg.backendType = "kLLVMCodeGen"
                            /\ ~arg.hasReduction
                         THEN <<"vectorizeInnerLoops">> ELSE <<>>)
                     \o <<"IRSimplifier::simplify">>
            step == positions(res.passes, BackendPasses)
        IN  /\ only(res.passes, StatedPasses) =
                   IF res.threw THEN before ELSE before \o after
            /\ \A i \in step :
                   /\ \A j \in positions(res.passes,
                                         {"inlineIntermediateBufs",
                                          "optimizeConditionals"}) : j < i
                   /\ \A j \in positions(res.passes, {"prepareForCodegen"}) :
                          i < j
            /\ only(res.passes, {"fuseAllLoops", "parallelizeOuterLoops"}) =
                   IF arg.backendType = "kLLVMCodeGen"
                   THEN <<"fuseAllLoops", "parallelizeOuterLoops">>
                   ELSE <<>>

\* an LLVM call with conditional optimization and vectorization, and a CUDA
\* call that split a loop after optimizing the conditionals
C23_Witness ==
    /\ fn = "transformLoops"
    /\ arg.optConditionals
    /\ \/ /\ arg.backendType = "kLLVMCodeGen"
          /\ res.passes = <<"sanitizeNames", "simplify",
                            "inlineIntermediateBufs", "optimizeConditionals",
                            "fuseAllLoops", "parallelizeOuterLoops",
                            "prepareForCodegen", "simplify",
                            "vectorizeInnerLoops", "IRSimplifier::simplify">>
       \/ /\ arg.backendType = "kCudaCodeGen"
          /\ "splitWithMask" \in {res.passes[i] : i \in 1..Len(res.passes)}
          /\ ~res.threw

\* C24: after genInputDebugNames the names assigned to the graph inputs are
\* pairwise distinct for any sequence of input debug names, including inputs
\* whose sanitized names collide with each other or with a name already
\* extended by underscores; each is the sanitized debug name followed by
\* underscores only.
C24_InputNamesDistinct ==
    fn = "genInputDebugNames" =>
        LET names == res.input_name_map_
        IN  /\ Len(names) = Len(arg.debugNames)
            /\ \A i, j \in 1..Len(names) : i # j => names[i] # names[j]
            /\ \A i \in 1..Len(names) :
                   LET s == sanitizeName(arg.debugNames[i])
                   IN  /\ Len(names[i]) >= Len(s)
                       /\ SubSeq(names[i], 1, Len(s)) = s
                       /\ \A k \in (Len(s) + 1)..Len(names[i]) :
                              names[i][k] = "_"

\* "a_", "a__" and "a.": the third name collides with the first and, once
\* extended, with the second
C24_Witness ==
    /\ fn = "genInputDebugNames"
    /\ arg.debugNames = <<<<"a", "_">>, <<"a", "_", "_">>, <<"a", ".">>>>
    /\ res.input_name_map_ =
           <<<<"a", "_">>, <<"a", "_", "_">>, <<"a", "_", "_", "_">>>>

\* C25: when the compiled kernel fails inside run() with fallback allowed,
\* the evaluation stack handed to the fallback interpreter is identical to the
\* stack passed to run(): runKernel drops the inputs and pushes the outputs
\* only after the codegen call has returned.
C25_FallbackGetsCallersStack ==
    (pc = "constructed" /\ kernelThrew /\ allow_fallback_) =>
        /\ calls = <<"runKernel", "fallback">>
        /\ fallbackStack = stackIn

\* the kernel failed on a stack holding values below the inputs, and the
\* fallback got that stack
C25_Witness ==
    /\ pc = "constructed"
    /\ kernelThrew
    /\ allow_fallback_
    /\ calls = <<"runKernel", "fallback">>
    /\ nInputs_ > 0
    /\ Len(stackIn) > nInputs_
    /\ fallbackStack = stackIn

\* C26 as stated: recompile() replaces only the codegen object and rebuilds
\* it for the same backend that compile() selected for the kernel's device;
\* bufferArgs, constants and the fallback flags are unchanged.  As a property
\* of every step on a compiled kernel: the codegen after the step is the one
\* of the selected backend, and the other members are as before.
C26_RecompileKeepsBackend ==
    [][(pc = "constructed" /\ compileResult = "ok") =>
           /\ codegen_' = getCodeGenName(backendResult.backendType)
           /\ UNCHANGED <<bufferArgs_, constants_, bufOutputs_, nInputs_,
                          allow_fallback_, use_fallback_, backendResult>>]_vars

====
